---- MODULE Spec2Model ----
(***************************************************************************)
(* A model of the QR Code encoder of Fameless4ellL/qrcode: the symbol      *)
(* object (qr/qrcode.go), the codeword assembly, segment encoder, masks    *)
(* and penalty scoring (utils/utils.go) and the GF(256) arithmetic and     *)
(* Reed-Solomon block tables (base/base.go).                               *)
(*                                                                         *)
(* Bytes are the integers 0..255, strings and slices are sequences (the    *)
(* Go index i is the TLA+ index i + 1), the module grid is a function on   *)
(* 0..N-1 in both directions, as in the source.                            *)
(***************************************************************************)
EXTENDS Integers, Sequences, FiniteSets, TLC

\* ------------------------------------------------------------------------
\* Bounds of the model (not program constants).

\* Largest version a symbol is given (NewQRCode, SetVersion).
MaxVersion == 2
\* Largest number of segments of one symbol.
MaxSegs == 1
\* Longest byte string given to OptimalMode and OptimalDataChunks.
MaxLen == 3
\* Largest minimum given to OptimalDataChunks.
MaxMinimum == 2
\* Number of goroutines building symbols at the same time.
NumBuilders == 2

\* ------------------------------------------------------------------------
\* Integer bit operations of Go (int, two's complement; \div and % floor).

RECURSIVE Xor(_, _)
Xor(a, b) ==
    IF a = 0 THEN b
    ELSE IF b = 0 THEN a
    ELSE (((a % 2) + (b % 2)) % 2) + 2 * Xor(a \div 2, b \div 2)

RECURSIVE Or(_, _)
Or(a, b) ==
    IF a = 0 THEN b
    ELSE IF b = 0 THEN a
    ELSE (IF (a % 2) + (b % 2) > 0 THEN 1 ELSE 0) + 2 * Or(a \div 2, b \div 2)

Shl(a, n) == a * 2^n
Shr(a, n) == a \div 2^n
\* (a >> n) & 1
BitAt(a, n) == (a \div 2^n) % 2

Min(x, y) == IF x < y THEN x ELSE y

\* TLC passes an operator's arguments unevaluated. Eval(v) is TRUE for every
\* v and has TLC evaluate v at this point: the loops below use it to compute
\* each iteration's state before the next iteration starts, as the code does.
Eval(v) == v = v

\* A local variable of the code: v is evaluated in full, once, and F is what
\* the code goes on to do with it.
Let(v, F(_)) == IF Eval(v) THEN F(v) ELSE F(v)

\* ------------------------------------------------------------------------
\* base/base.go: GF(256) tables.

\* EXP_TABLE[i] = EXP_TABLE[i-4] ^ EXP_TABLE[i-5] ^ EXP_TABLE[i-6] ^ EXP_TABLE[i-8],
\* filled in index order up to length n (t holds EXP_TABLE[0..Len(t)-1]).
RECURSIVE ExpFill(_, _)
ExpFill(t, n) ==
    IF Len(t) >= n THEN t
    ELSE LET i == Len(t)
         IN  ExpFill(Append(t, Xor(Xor(t[i - 4 + 1], t[i - 5 + 1]),
                                   Xor(t[i - 6 + 1], t[i - 8 + 1]))), n)

EXP_TABLE ==
    LET t0 == [i \in 1..8 |-> 2^(i - 1)]
        t1 == ExpFill(t0, 64)
        t2 == ExpFill(t1, 128)
        t3 == ExpFill(t2, 192)
        t4 == ExpFill(t3, 256)
    IN  [i \in 0..255 |-> t4[i + 1]]

\* LOG_TABLE[EXP_TABLE[i]] = i for i = 0..254 in order (a later i overwrites).
LOG_TABLE ==
    [n \in 0..255 |->
        IF \E i \in 0..254 : EXP_TABLE[i] = n
        THEN CHOOSE i \in 0..254 :
                /\ EXP_TABLE[i] = n
                /\ \A j \in (i + 1)..254 : EXP_TABLE[j] # n
        ELSE 0]

\* The error result of glog.
GlogErr == -1

glog(n) == IF n < 1 THEN GlogErr ELSE LOG_TABLE[n]

\* The table read one place further on.
GexpNext(n) == EXP_TABLE[(n + 1) % 255]

Gexp(n) == EXP_TABLE[n % 255]

\* ------------------------------------------------------------------------
\* Error correction levels (package constants, not among the sources: the
\* numbering is the public ordering the specification gives).

ERROR_CORRECT_L == 0
ERROR_CORRECT_M == 1
ERROR_CORRECT_Q == 2
ERROR_CORRECT_H == 3

RS_BLOCK_OFFSET ==
    (ERROR_CORRECT_L :> 0) @@ (ERROR_CORRECT_M :> 1) @@
    (ERROR_CORRECT_Q :> 2) @@ (ERROR_CORRECT_H :> 3)

RS_BLOCK_TABLE == <<
    <<1, 26, 19>>, <<1, 26, 16>>, <<1, 26, 13>>, <<1, 26, 9>>,
    <<1, 44, 34>>, <<1, 44, 28>>, <<1, 44, 22>>, <<1, 44, 16>>,
    <<1, 70, 55>>, <<1, 70, 44>>, <<2, 35, 17>>, <<2, 35, 13>>,
    <<1, 100, 80>>, <<2, 50, 32>>, <<2, 50, 24>>, <<4, 25, 9>>,
    <<1, 134, 108>>, <<2, 67, 43>>, <<2, 33, 15, 2, 34, 16>>, <<2, 33, 11, 2, 34, 12>>,
    <<2, 86, 68>>, <<4, 43, 27>>, <<4, 43, 19>>, <<4, 43, 15>>,
    <<2, 98, 78>>, <<4, 49, 31>>, <<2, 32, 14, 4, 33, 15>>, <<4, 39, 13, 1, 40, 14>>,
    <<2, 121, 97>>, <<2, 60, 38, 2, 61, 39>>, <<4, 40, 18, 2, 41, 19>>, <<4, 40, 14, 2, 41, 15>>,
    <<2, 146, 116>>, <<3, 58, 36, 2, 59, 37>>, <<4, 36, 16, 4, 37, 17>>, <<4, 36, 12, 4, 37, 13>>,
    <<2, 86, 68, 2, 87, 69>>, <<4, 69, 43, 1, 70, 44>>, <<6, 43, 19, 2, 44, 20>>, <<6, 43, 15, 2, 44, 16>>,
    <<4, 101, 81>>, <<1, 80, 50, 4, 81, 51>>, <<4, 50, 22, 4, 51, 23>>, <<3, 36, 12, 8, 37, 13>>,
    <<2, 116, 92, 2, 117, 93>>, <<6, 58, 36, 2, 59, 37>>, <<4, 46, 20, 6, 47, 21>>, <<7, 42, 14, 4, 43, 15>>,
    <<4, 133, 107>>, <<8, 59, 37, 1, 60, 38>>, <<8, 44, 20, 4, 45, 21>>, <<12, 33, 11, 4, 34, 12>>,
    <<3, 145, 115, 1, 146, 116>>, <<4, 64, 40, 5, 65, 41>>, <<11, 36, 16, 5, 37, 17>>, <<11, 36, 12, 5, 37, 13>>,
    <<5, 109, 87, 1, 110, 88>>, <<5, 65, 41, 5, 66, 42>>, <<5, 54, 24, 7, 55, 25>>, <<11, 36, 12, 7, 37, 13>>,
    <<5, 122, 98, 1, 123, 99>>, <<7, 73, 45, 3, 74, 46>>, <<15, 43, 19, 2, 44, 20>>, <<3, 45, 15, 13, 46, 16>>,
    <<1, 135, 107, 5, 136, 108>>, <<10, 74, 46, 1, 75, 47>>, <<1, 50, 22, 15, 51, 23>>, <<2, 42, 14, 17, 43, 15>>,
    <<5, 150, 120, 1, 151, 121>>, <<9, 69, 43, 4, 70, 44>>, <<17, 50, 22, 1, 51, 23>>, <<2, 42, 14, 19, 43, 15>>,
    <<3, 141, 113, 4, 142, 114>>, <<3, 70, 44, 11, 71, 45>>, <<17, 47, 21, 4, 48, 22>>, <<9, 39, 13, 16, 40, 14>>,
    <<3, 135, 107, 5, 136, 108>>, <<3, 67, 41, 13, 68, 42>>, <<15, 54, 24, 5, 55, 25>>, <<15, 43, 15, 10, 44, 16>>,
    <<4, 144, 116, 4, 145, 117>>, <<17, 68, 42>>, <<17, 50, 22, 6, 51, 23>>, <<19, 46, 16, 6, 47, 17>>,
    <<2, 139, 111, 7, 140, 112>>, <<17, 74, 46>>, <<7, 54, 24, 16, 55, 25>>, <<34, 37, 13>>,
    <<4, 151, 121, 5, 152, 122>>, <<4, 75, 47, 14, 76, 48>>, <<11, 54, 24, 14, 55, 25>>, <<16, 45, 15, 14, 46, 16>>,
    <<6, 147, 117, 4, 148, 118>>, <<6, 73, 45, 14, 74, 46>>, <<11, 54, 24, 16, 55, 25>>, <<30, 46, 16, 2, 47, 17>>,
    <<8, 132, 106, 4, 133, 107>>, <<8, 75, 47, 13, 76, 48>>, <<7, 54, 24, 22, 55, 25>>, <<22, 45, 15, 13, 46, 16>>,
    <<10, 142, 114, 2, 143, 115>>, <<19, 74, 46, 4, 75, 47>>, <<28, 50, 22, 6, 51, 23>>, <<33, 46, 16, 4, 47, 17>>,
    <<8, 152, 122, 4, 153, 123>>, <<22, 73, 45, 3, 74, 46>>, <<8, 53, 23, 26, 54, 24>>, <<12, 45, 15, 28, 46, 16>>,
    <<3, 147, 117, 10, 148, 118>>, <<3, 73, 45, 23, 74, 46>>, <<4, 54, 24, 31, 55, 25>>, <<11, 45, 15, 31, 46, 16>>,
    <<7, 146, 116, 7, 147, 117>>, <<21, 73, 45, 7, 74, 46>>, <<1, 53, 23, 37, 54, 24>>, <<19, 45, 15, 26, 46, 16>>,
    <<5, 145, 115, 10, 146, 116>>, <<19, 75, 47, 10, 76, 48>>, <<15, 54, 24, 25, 55, 25>>, <<23, 45, 15, 25, 46, 16>>,
    <<13, 145, 115, 3, 146, 116>>, <<2, 74, 46, 29, 75, 47>>, <<42, 54, 24, 1, 55, 25>>, <<23, 45, 15, 28, 46, 16>>,
    <<17, 145, 115>>, <<10, 74, 46, 23, 75, 47>>, <<10, 54, 24, 35, 55, 25>>, <<19, 45, 15, 35, 46, 16>>,
    <<17, 145, 115, 1, 146, 116>>, <<14, 74, 46, 21, 75, 47>>, <<29, 54, 24, 19, 55, 25>>, <<11, 45, 15, 46, 46, 16>>,
    <<13, 145, 115, 6, 146, 116>>, <<14, 74, 46, 23, 75, 47>>, <<44, 54, 24, 7, 55, 25>>, <<59, 46, 16, 1, 47, 17>>,
    <<12, 151, 121, 7, 152, 122>>, <<12, 75, 47, 26, 76, 48>>, <<39, 54, 24, 14, 55, 25>>, <<22, 45, 15, 41, 46, 16>>,
    <<6, 151, 121, 14, 152, 122>>, <<6, 75, 47, 34, 76, 48>>, <<46, 54, 24, 10, 55, 25>>, <<2, 45, 15, 64, 46, 16>>,
    <<17, 152, 122, 4, 153, 123>>, <<29, 74, 46, 14, 75, 47>>, <<49, 54, 24, 10, 55, 25>>, <<24, 45, 15, 46, 46, 16>>,
    <<4, 152, 122, 18, 153, 123>>, <<13, 74, 46, 32, 75, 47>>, <<48, 54, 24, 14, 55, 25>>, <<42, 45, 15, 32, 46, 16>>,
    <<20, 147, 117, 4, 148, 118>>, <<40, 75, 47, 7, 76, 48>>, <<43, 54, 24, 22, 55, 25>>, <<10, 45, 15, 67, 46, 16>>,
    <<19, 148, 118, 6, 149, 119>>, <<18, 75, 47, 31, 76, 48>>, <<34, 54, 24, 34, 55, 25>>, <<20, 45, 15, 61, 46, 16>>
>>

\* RSBlocks: the row of (version, errorCorrection) expanded into count
\* repetitions of RSBlock{TotalCount, DataCount} per triple, in order.
\* One block per triple, whatever its count.
Single(x, n) == <<x>>

RECURSIVE Repeat(_, _)
Repeat(x, n) == IF n <= 0 THEN << >> ELSE <<x>> \o Repeat(x, n - 1)

RECURSIVE ExpandBlocks(_, _)
ExpandBlocks(rsBlock, i) ==
    IF i >= Len(rsBlock) THEN << >>
    ELSE Repeat([TotalCount |-> rsBlock[i + 2], DataCount |-> rsBlock[i + 3]],
                rsBlock[i + 1])
         \o ExpandBlocks(rsBlock, i + 3)

RSBlocksOk(version, errorCorrection) == errorCorrection \in DOMAIN RS_BLOCK_OFFSET

RSBlocks(version, errorCorrection) ==
    ExpandBlocks(RS_BLOCK_TABLE[(version - 1) * 4 + RS_BLOCK_OFFSET[errorCorrection] + 1], 0)

\* ------------------------------------------------------------------------
\* base/base.go: polynomials over GF(256), highest degree first.
\* A result is [ok, num]: ok = FALSE is the error return.

PolyErr == [ok |-> FALSE, num |-> << >>]

\* The first index (0-based) of a non-zero coefficient, or the last index.
RECURSIVE FirstNonZero(_, _)
FirstNonZero(num, offset) ==
    IF offset >= Len(num) - 1 THEN offset
    ELSE IF num[offset + 1] # 0 THEN offset
    ELSE FirstNonZero(num, offset + 1)

NewPolynomial(num, shift) ==
    IF Len(num) = 0 THEN PolyErr
    ELSE LET offset == FirstNonZero(num, 0)
         IN  [ok  |-> TRUE,
              num |-> SubSeq(num, offset + 1, Len(num)) \o [k \in 1..shift |-> 0]]

\* num[i+j] ^= Gexp(glog(item) + glog(otherItem)) over all i, j; a zero
\* coefficient makes glog, and so Mul, fail. XorTerms is what the loops
\* leave in num[k-1]: the terms with i + j = k - 1, i from lo to hi (1-based).
RECURSIVE XorTerms(_, _, _, _, _)
XorTerms(p, other, k, i, hi) ==
    IF i > hi THEN 0
    ELSE Xor(Gexp(glog(p[i]) + glog(other[k - i + 1])),
             XorTerms(p, other, k, i + 1, hi))

Mul(p, other) ==
    IF \E i \in 1..Len(p) : p[i] < 1 THEN PolyErr
    ELSE IF \E j \in 1..Len(other) : other[j] < 1 THEN PolyErr
    ELSE Let([k \in 1..(Len(p) + Len(other) - 1) |->
                 XorTerms(p, other, k,
                          IF k + 1 - Len(other) > 1 THEN k + 1 - Len(other) ELSE 1,
                          Min(Len(p), k))],
             LAMBDA num : NewPolynomial(num, 0))

RECURSIVE StripZeros(_)
StripZeros(num) ==
    IF Len(num) > 0 /\ num[1] = 0 THEN StripZeros(Tail(num)) ELSE num

\* p and other are polynomials [ok, num]; p is also the modPoly of the
\* iteration before, whose error return ends the loop.
RECURSIVE Mod(_, _)
Mod(p, other) ==
    IF ~p.ok THEN PolyErr
    ELSE IF Len(p.num) < Len(other.num) THEN p
    ELSE IF glog(p.num[1]) = GlogErr \/ glog(other.num[1]) = GlogErr THEN PolyErr
    ELSE IF \E i \in 1..Len(other.num) : glog(other.num[i]) = GlogErr THEN PolyErr
    ELSE Let([i \in 1..Len(p.num) |->
                 IF i <= Len(other.num)
                 THEN Xor(p.num[i],
                          Gexp(glog(other.num[i]) + (glog(p.num[1]) - glog(other.num[1]))))
                 ELSE p.num[i]],
             LAMBDA num : Mod(NewPolynomial(StripZeros(num), 0), other))

\* ------------------------------------------------------------------------
\* utils/utils.go: modes, mode sizes, the alphanumeric alphabet.

ModeNumeric == 1
ModeAlphanumeric == 2
ModeByte == 4
ModeKanji == 8

ModeSizeSmall ==
    (ModeNumeric :> 10) @@ (ModeAlphanumeric :> 9) @@ (ModeByte :> 8) @@ (ModeKanji :> 8)
ModeSizeMedium ==
    (ModeNumeric :> 12) @@ (ModeAlphanumeric :> 11) @@ (ModeByte :> 16) @@ (ModeKanji :> 10)
ModeSizeLarge ==
    (ModeNumeric :> 14) @@ (ModeAlphanumeric :> 13) @@ (ModeByte :> 16) @@ (ModeKanji :> 12)

\* "0123456789ABCDEFGHIJKLMNOPQRSTUVWXYZ $%*+-./:" as bytes.
AlphanumericChars ==
    << 48, 49, 50, 51, 52, 53, 54, 55, 56, 57,
       65, 66, 67, 68, 69, 70, 71, 72, 73, 74, 75, 76, 77, 78, 79, 80, 81, 82,
       83, 84, 85, 86, 87, 88, 89, 90,
       32, 36, 37, 42, 43, 45, 46, 47, 58 >>

\* regexp.QuoteMeta: a backslash before each of \.+*?()|[]{}^$ (and before
\* nothing else: '-' is left as it is).
QuoteMetaSpecial == {92, 46, 43, 42, 63, 40, 41, 124, 91, 93, 123, 125, 94, 36}

RECURSIVE QuoteMeta(_)
QuoteMeta(s) ==
    IF Len(s) = 0 THEN << >>
    ELSE (IF s[1] \in QuoteMetaSpecial THEN <<92, s[1]>> ELSE <<s[1]>>)
         \o QuoteMeta(Tail(s))

\* The set of bytes of a regexp character class "[" body "]": its items are
\* literals or escaped literals, and item '-' item is the range between them.
\* ClassItems gives the items, each <<byte, escaped>>.
RECURSIVE ClassItems(_)
ClassItems(body) ==
    IF Len(body) = 0 THEN << >>
    ELSE IF body[1] = 92 /\ Len(body) >= 2
         THEN <<(<<body[2], TRUE>>)>> \o ClassItems(SubSeq(body, 3, Len(body)))
         ELSE <<(<<body[1], FALSE>>)>> \o ClassItems(Tail(body))

RECURSIVE ClassOfItems(_)
ClassOfItems(items) ==
    IF Len(items) = 0 THEN {}
    ELSE IF Len(items) >= 3 /\ items[2] = <<45, FALSE>>
         THEN (items[1][1])..(items[3][1]) \cup ClassOfItems(SubSeq(items, 4, Len(items)))
         ELSE {items[1][1]} \cup ClassOfItems(Tail(items))

CharClass(body) == ClassOfItems(ClassItems(body))

\* The class of ReAlphaNumeric and of OptimalDataChunks' alphaPattern.
AlphaClass == CharClass(QuoteMeta(AlphanumericChars))

\* The class of \d and of isDigit.
DigitClass == 48..57

\* ReAlphaNumeric = ^[...]*$ : every byte is of the class (a byte >= 0x80
\* decodes to a rune >= 0x80, which is not of the class).
ReAlphaNumericMatch(data) == \A i \in 1..Len(data) : data[i] \in AlphaClass

NumberLength == (3 :> 10) @@ (2 :> 7) @@ (1 :> 4)

PAD0 == 236
PAD1 == 17

ModeSizeVersion(version) ==
    IF version <= 9 THEN ModeSizeSmall
    ELSE IF version <= 26 THEN ModeSizeMedium
    ELSE ModeSizeLarge

CheckVersion(version) == version >= 1 /\ version <= 40

\* Panics on a bad mode or version (callers check LengthInBitsOk first).
LengthInBitsOk(mode, version) ==
    /\ mode \in {ModeNumeric, ModeAlphanumeric, ModeByte, ModeKanji}
    /\ CheckVersion(version)

LengthInBits(mode, version) == ModeSizeVersion(version)[mode]

\* ------------------------------------------------------------------------
\* utils/utils.go: BitBuffer, [buffer, length].

NewBitBuffer == [buffer |-> << >>, length |-> 0]

PutBit(b, bit) ==
    LET bufIndex == b.length \div 8
        grown == IF Len(b.buffer) <= bufIndex THEN Append(b.buffer, 0) ELSE b.buffer
        set == IF bit
               THEN [grown EXCEPT ![bufIndex + 1] = Or(@, Shr(128, b.length % 8))]
               ELSE grown
    IN  [buffer |-> set, length |-> b.length + 1]

RECURSIVE PutFrom(_, _, _, _)
PutFrom(b, num, length, i) ==
    IF i >= length THEN b
    ELSE Let(PutBit(b, BitAt(num, length - i - 1) = 1),
             LAMBDA nb : PutFrom(nb, num, length, i + 1))

Put(b, num, length) == PutFrom(b, num, length, 0)

BufLen(b) == b.length

\* Get panics (index out of range) when index / 8 is beyond the backing bytes.
GetOk(b, index) == index >= 0 /\ index \div 8 < Len(b.buffer)

Get(b, index) == BitAt(b.buffer[(index \div 8) + 1], 7 - (index % 8)) = 1

\* ------------------------------------------------------------------------
\* utils/utils.go: QRData, [data, mode].

isDigit(data) == \A i \in 1..Len(data) : ~(data[i] < 48 \/ data[i] > 57)

OptimalMode(data) ==
    IF isDigit(data) THEN ModeNumeric
    ELSE IF ReAlphaNumericMatch(data) THEN ModeAlphanumeric
    ELSE ModeByte

\* NewQRData(data, mode, checkData): [ok, q]; ok = FALSE is the error return.
NewQRData(data, mode, checkData) ==
    IF mode = 0
    THEN [ok |-> TRUE, q |-> [data |-> data, mode |-> OptimalMode(data)]]
    ELSE IF mode # ModeNumeric /\ mode # ModeAlphanumeric /\ mode # ModeByte
    THEN [ok |-> FALSE, q |-> [data |-> << >>, mode |-> 0]]
    ELSE IF checkData /\ mode < OptimalMode(data)
    THEN [ok |-> FALSE, q |-> [data |-> << >>, mode |-> 0]]
    ELSE [ok |-> TRUE, q |-> [data |-> data, mode |-> mode]]

\* strings.IndexByte(AlphanumericChars, c): -1 when c is not in the string.
alphanumericIndex(c) ==
    IF \E i \in 1..Len(AlphanumericChars) : AlphanumericChars[i] = c
    THEN (CHOOSE i \in 1..Len(AlphanumericChars) :
            /\ AlphanumericChars[i] = c
            /\ \A j \in 1..(i - 1) : AlphanumericChars[j] # c) - 1
    ELSE -1

\* result = result*10 + int(b - '0'), b - '0' in byte arithmetic.
RECURSIVE bytesToIntFrom(_, _)
bytesToIntFrom(bytes, result) ==
    IF Len(bytes) = 0 THEN result
    ELSE bytesToIntFrom(Tail(bytes), result * 10 + ((bytes[1] - 48) % 256))

bytesToInt(bytes) == bytesToIntFrom(bytes, 0)

RECURSIVE WriteNumeric(_, _, _)
WriteNumeric(data, buffer, i) ==
    IF i >= Len(data) THEN buffer
    ELSE LET chars == SubSeq(data, i + 1, Min(i + 3, Len(data)))
         IN  Let(Put(buffer, bytesToInt(chars), NumberLength[Len(chars)]),
                 LAMBDA nb : WriteNumeric(data, nb, i + 3))

RECURSIVE WriteAlphanumeric(_, _, _)
WriteAlphanumeric(data, buffer, i) ==
    IF i >= Len(data) THEN buffer
    ELSE LET chars == SubSeq(data, i + 1, Min(i + 2, Len(data)))
         IN  Let(IF Len(chars) > 1
                 THEN Put(buffer, alphanumericIndex(chars[1]) * 45
                                  + alphanumericIndex(chars[2]), 11)
                 ELSE Put(buffer, alphanumericIndex(chars[1]), 6),
                 LAMBDA nb : WriteAlphanumeric(data, nb, i + 2))

RECURSIVE WriteBytes(_, _, _)
WriteBytes(data, buffer, i) ==
    IF i >= Len(data) THEN buffer
    ELSE Let(Put(buffer, data[i + 1], 8), LAMBDA nb : WriteBytes(data, nb, i + 1))

Write(q, buffer) ==
    IF q.mode = ModeNumeric THEN WriteNumeric(q.data, buffer, 0)
    ELSE IF q.mode = ModeAlphanumeric THEN WriteAlphanumeric(q.data, buffer, 0)
    ELSE WriteBytes(q.data, buffer, 0)

\* ------------------------------------------------------------------------
\* utils/utils.go: the chunker.

\* The nil result of FindIndex.
NoMatch == << >>

\* regexp.FindIndex, <<start, end>> (0-based, end exclusive), of the two
\* pattern shapes OptimalDataChunks compiles for a class X:
\*   anchored:  ^X+$       (all of data, when it is non-empty and all of X)
\*   otherwise: X{min,}    (the leftmost run of at least min bytes of X,
\*                          taken to the end of the run)
FindIndex(pat, data) ==
    IF pat.anchored
    THEN IF Len(data) >= 1 /\ \A i \in 1..Len(data) : data[i] \in pat.class
         THEN <<0, Len(data)>>
         ELSE NoMatch
    ELSE LET starts == {i \in 0..(Len(data) - pat.min) :
                            \A k \in (i + 1)..(i + pat.min) : data[k] \in pat.class}
         IN  IF starts = {} THEN NoMatch
             ELSE LET start == CHOOSE i \in starts : \A j \in starts : i <= j
                      end == CHOOSE e \in (start + pat.min)..Len(data) :
                                /\ \A k \in (start + 1)..e : data[k] \in pat.class
                                /\ (e = Len(data) \/ data[e + 1] \notin pat.class)
                  IN  <<start, end>>

\* The first loop of optimalSplit: [data, result] when no numeric match is left.
RECURSIVE NumericLoop(_, _, _)
NumericLoop(data, result, numPattern) ==
    IF Len(data) = 0 THEN [data |-> data, result |-> result]
    ELSE Let(FindIndex(numPattern, data), LAMBDA numMatch :
             IF numMatch = NoMatch THEN [data |-> data, result |-> result]
             ELSE LET start == numMatch[1]
                      end == numMatch[2]
                  IN  NumericLoop(
                          SubSeq(data, end + 1, Len(data)),
                          Append(IF start > 0
                                 THEN Append(result, [data |-> SubSeq(data, 1, start),
                                                      mode |-> ModeByte])
                                 ELSE result,
                                 [data |-> SubSeq(data, start + 1, end), mode |-> ModeNumeric]),
                          numPattern))

optimalSplit(data0, numPattern, alphaPattern) ==
    Let(NumericLoop(data0, << >>, numPattern), LAMBDA s :
        IF Len(s.data) > 0
        THEN Let(FindIndex(alphaPattern, s.data), LAMBDA alphaMatch :
                 IF alphaMatch # NoMatch
                 THEN LET start == alphaMatch[1]
                          end == alphaMatch[2]
                      IN  Append(IF start > 0
                                 THEN Append(s.result, [data |-> SubSeq(s.data, 1, start),
                                                        mode |-> ModeByte])
                                 ELSE s.result,
                                 [data |-> SubSeq(s.data, start + 1, end),
                                  mode |-> ModeAlphanumeric])
                 ELSE Append(s.result, [data |-> s.data, mode |-> ModeByte]))
        ELSE s.result)

OptimalDataChunks(data, minimum0) ==
    LET minimum == IF minimum0 <= 0 THEN 4 ELSE minimum0
        anchored == Len(data) <= minimum
    IN  optimalSplit(data,
            [class |-> DigitClass, min |-> IF anchored THEN 1 ELSE minimum,
             anchored |-> anchored],
            [class |-> AlphaClass, min |-> IF anchored THEN 1 ELSE minimum,
             anchored |-> anchored])

\* ------------------------------------------------------------------------
\* utils/utils.go: codeword assembly.

\* The nil slice (a value no slice of bytes takes).
NilSlice == <<-1>>

\* rsPoly: the product of (x + Gexp(i)) for i < ecCount, from {1}; rsPoly is
\* a polynomial [ok, num], the error return of Mul ends the loop.
RECURSIVE RsPolyFrom(_, _, _)
RsPolyFrom(rsPoly, i, ecCount) ==
    IF ~rsPoly.ok THEN PolyErr
    ELSE IF i >= ecCount THEN rsPoly
    ELSE Let(Mul(rsPoly.num, NewPolynomial(<<1, Gexp(i)>>, 0).num),
             LAMBDA next : RsPolyFrom(next, i + 1, ecCount))

\* One block of CreateBytes: [ok, dc, ec], its data and error correction
\* codewords (ok = FALSE where CreateBytes logs and returns nil).
BlockCodewords(buffer, rsBlock, offset) ==
    Let([i \in 1..rsBlock.DataCount |-> buffer.buffer[i + offset] % 256], LAMBDA dc :
    Let(RsPolyFrom(NewPolynomial(<<1>>, 0), 0, rsBlock.TotalCount - rsBlock.DataCount),
        LAMBDA rsPoly :
    Let(IF rsPoly.ok THEN Mod(NewPolynomial(dc, Len(rsPoly.num) - 1), rsPoly)
        ELSE PolyErr,
        LAMBDA modPoly :
        IF ~modPoly.ok THEN [ok |-> FALSE, dc |-> dc, ec |-> << >>]
        ELSE LET ecLen == Len(rsPoly.num) - 1
                 modOffset == Len(modPoly.num) - ecLen
             IN  [ok |-> TRUE,
                  dc |-> dc,
                  ec |-> [i \in 1..ecLen |->
                            IF (i - 1) + modOffset >= 0
                            THEN modPoly.num[(i - 1) + modOffset + 1]
                            ELSE 0]])))

RECURSIVE SumDataCount(_, _)
SumDataCount(rsBlocks, n) ==
    IF n = 0 THEN 0 ELSE rsBlocks[n].DataCount + SumDataCount(rsBlocks, n - 1)

RECURSIVE SumTotalCount(_, _)
SumTotalCount(rsBlocks, n) ==
    IF n = 0 THEN 0 ELSE rsBlocks[n].TotalCount + SumTotalCount(rsBlocks, n - 1)

\* Column-major interleave: for i < max, for each block r, cols[r][i] where present.
RECURSIVE Interleave(_, _, _)
Interleave(cols, i, max) ==
    IF i >= max THEN << >>
    ELSE LET present == SelectSeq(cols, LAMBDA c : i < Len(c))
         IN  [r \in 1..Len(present) |-> present[r][i + 1]] \o Interleave(cols, i + 1, max)

SeqMax(lens) == IF Len(lens) = 0 THEN 0
                ELSE CHOOSE m \in {lens[k] : k \in 1..Len(lens)} :
                        \A k \in 1..Len(lens) : lens[k] <= m

\* CreateBytes: [ok, data]; ok = FALSE is the nil return.
CreateBytes(buffer, rsBlocks) ==
    LET maxDcCount == SeqMax([r \in 1..Len(rsBlocks) |-> rsBlocks[r].DataCount])
        maxEcCount == SeqMax([r \in 1..Len(rsBlocks) |->
                                 rsBlocks[r].TotalCount - rsBlocks[r].DataCount])
    IN  Let([r \in 1..Len(rsBlocks) |->
                BlockCodewords(buffer, rsBlocks[r], SumDataCount(rsBlocks, r - 1))],
            LAMBDA blocks :
            IF \E r \in 1..Len(rsBlocks) : ~blocks[r].ok
            THEN [ok |-> FALSE, data |-> NilSlice]
            ELSE [ok |-> TRUE,
                  data |-> Interleave([r \in 1..Len(rsBlocks) |-> blocks[r].dc], 0, maxDcCount)
                           \o Interleave([r \in 1..Len(rsBlocks) |-> blocks[r].ec], 0, maxEcCount)])

\* The segments' header, length and payload bits (the first loop of
\* CreateData and of BestFit), with the length widths of modeSizes.
RECURSIVE PutSegments(_, _, _, _)
PutSegments(buffer, dataList, modeSizes, i) ==
    IF i > Len(dataList) THEN buffer
    ELSE LET data == dataList[i]
         IN  Let(Write(data, Put(Put(buffer, data.mode, 4),
                                 Len(data.data), modeSizes[data.mode])),
                 LAMBDA b3 : PutSegments(b3, dataList, modeSizes, i + 1))

\* for i := 0; i < min(bitLimit-buffer.Len(), 4); i++ { buffer.PutBit(false) }
\* (the bound is computed again before every iteration).
RECURSIVE Terminate(_, _, _)
Terminate(buffer, bitLimit, i) ==
    IF i < Min(bitLimit - buffer.length, 4)
    THEN Terminate(PutBit(buffer, FALSE), bitLimit, i + 1)
    ELSE buffer

RECURSIVE PutZeros(_, _)
PutZeros(buffer, n) ==
    IF n <= 0 THEN buffer
    ELSE Let(PutBit(buffer, FALSE), LAMBDA nb : PutZeros(nb, n - 1))

Delimit(buffer) ==
    LET delimit == buffer.length % 8
    IN  IF delimit # 0 THEN PutZeros(buffer, 8 - delimit) ELSE buffer

\* Every pad byte 0x11.
SamePadBytes(buffer, i, bytesToFill) ==
    [buffer |-> buffer.buffer \o [k \in 1..(bytesToFill - i) |-> PAD1],
     length |-> buffer.length + 8 * (bytesToFill - i)]

RECURSIVE PadBytes(_, _, _)
PadBytes(buffer, i, bytesToFill) ==
    IF i >= bytesToFill THEN buffer
    ELSE Let(Put(buffer, IF i % 2 = 0 THEN PAD0 ELSE PAD1, 8),
             LAMBDA nb : PadBytes(nb, i + 1, bytesToFill))

\* The data bit stream CreateData hands to CreateBytes.
DataBuffer(buffer, bitLimit) ==
    Let(Delimit(Terminate(buffer, bitLimit, 0)), LAMBDA delimited :
        PadBytes(delimited, 0, (bitLimit - delimited.length) \div 8))

\* CreateData: [status, data]. status is "ok" (data, nil error; data is
\* NilSlice where CreateBytes returned nil), "err" (the error return: a bad
\* error correction level or the code length overflow) or "panic"
\* (LengthInBits on a bad mode or version).
CreateData(version, errorCorrection, dataList) ==
    IF \E i \in 1..Len(dataList) : ~LengthInBitsOk(dataList[i].mode, version)
    THEN [status |-> "panic", data |-> NilSlice]
    ELSE IF ~RSBlocksOk(version, errorCorrection)
    THEN [status |-> "err", data |-> NilSlice]
    ELSE Let(PutSegments(NewBitBuffer, dataList, ModeSizeVersion(version), 1),
             LAMBDA buffer :
         Let(RSBlocks(version, errorCorrection), LAMBDA rsBlocks :
         Let(8 * SumDataCount(rsBlocks, Len(rsBlocks)), LAMBDA bitLimit :
             IF buffer.length > bitLimit
             THEN [status |-> "err", data |-> NilSlice]
             ELSE [status |-> "ok",
                   data |-> CreateBytes(DataBuffer(buffer, bitLimit), rsBlocks).data])))

\* ------------------------------------------------------------------------
\* utils/utils.go: BCH codes, alignment positions, masks.

G15 == 2^10 + 2^8 + 2^5 + 2^4 + 2^2 + 2^1 + 2^0
G18 == 2^12 + 2^11 + 2^10 + 2^9 + 2^8 + 2^5 + 2^2 + 2^0
G15_MASK == 2^14 + 2^12 + 2^10 + 2^4 + 2^1

RECURSIVE BCHDigit(_)
BCHDigit(data) == IF data = 0 THEN 0 ELSE 1 + BCHDigit(data \div 2)

RECURSIVE BCHReduce(_, _)
BCHReduce(d, g) ==
    IF BCHDigit(d) - BCHDigit(g) >= 0
    THEN BCHReduce(Xor(d, Shl(g, BCHDigit(d) - BCHDigit(g))), g)
    ELSE d

\* The data bits under the mask, with no BCH remainder.
MaskedData(data) == Xor(Shl(data, 10), G15_MASK)

BCHTypeInfo(data) == Xor(Or(Shl(data, 10), BCHReduce(Shl(data, 10), G15)), G15_MASK)

BCHTypeNumber(data) == Or(Shl(data, 12), BCHReduce(Shl(data, 12), G18))

PatternPositionTable == <<
    <<>>, <<6, 18>>, <<6, 22>>, <<6, 26>>,
    <<6, 30>>, <<6, 34>>, <<6, 22, 38>>, <<6, 24, 42>>,
    <<6, 26, 46>>, <<6, 28, 50>>, <<6, 30, 54>>, <<6, 32, 58>>,
    <<6, 34, 62>>, <<6, 26, 46, 66>>, <<6, 26, 48, 70>>, <<6, 26, 50, 74>>,
    <<6, 30, 54, 78>>, <<6, 30, 56, 82>>, <<6, 30, 58, 86>>, <<6, 34, 62, 90>>,
    <<6, 28, 50, 72, 94>>, <<6, 26, 50, 74, 98>>, <<6, 30, 54, 78, 102>>, <<6, 28, 54, 80, 106>>,
    <<6, 32, 58, 84, 110>>, <<6, 30, 58, 86, 114>>, <<6, 34, 62, 90, 118>>, <<6, 26, 50, 74, 98, 122>>,
    <<6, 30, 54, 78, 102, 126>>, <<6, 26, 52, 78, 104, 130>>, <<6, 30, 56, 82, 108, 134>>, <<6, 34, 60, 86, 112, 138>>,
    <<6, 30, 58, 86, 114, 142>>, <<6, 34, 62, 90, 118, 146>>, <<6, 30, 54, 78, 102, 126, 150>>, <<6, 24, 50, 76, 102, 128, 154>>,
    <<6, 28, 54, 80, 106, 132, 158>>, <<6, 32, 58, 84, 110, 136, 162>>, <<6, 26, 54, 82, 110, 138, 166>>, <<6, 30, 58, 86, 114, 142, 170>>
>>

PatternPosition(version) == PatternPositionTable[version - 1 + 1]

\* MaskFunc(pattern)(i, j); patterns outside 0..7 panic (MaskFuncOk).
MaskFuncOk(pattern) == pattern \in 0..7

MaskFunc(pattern, i, j) ==
    CASE pattern = 0 -> (i + j) % 2 = 0
      [] pattern = 1 -> i % 2 = 0
      [] pattern = 2 -> j % 3 = 0
      [] pattern = 3 -> (i + j) % 3 = 0
      [] pattern = 4 -> ((i \div 2) + (j \div 3)) % 2 = 0
      [] pattern = 5 -> ((i * j) % 2) + ((i * j) % 3) = 0
      [] pattern = 6 -> (((i * j) % 2) + ((i * j) % 3)) % 2 = 0
      [] pattern = 7 -> (((i * j) % 3) + ((i + j) % 2)) % 2 = 0

\* ------------------------------------------------------------------------
\* qr/qrcode.go: the module grid, ModulesType = [][]*bool. A cell is Nil (a
\* nil pointer) or points to a bool of its own, 1 (true, dark) or 0 (false,
\* light): every store into the grid takes the address of a fresh variable.

Nil == 2

B(bool) == IF bool THEN 1 ELSE 0

\* make(ModulesType, 0)
NoModules == << >>

\* make(ModulesType, n) with n rows of n nil cells.
NilModules(n) == [r \in 0..(n - 1) |-> [c \in 0..(n - 1) |-> Nil]]

Size(modules) == Cardinality(DOMAIN modules)

\* A new grid of the size of src, every cell nil.
EmptyLike(src) == [i \in DOMAIN src |-> [j \in DOMAIN src[i] |-> Nil]]

\* Copy2DArray: a new grid (rows of its own) whose cells hold the same
\* pointers. No store anywhere writes through a cell's pointer.
Copy2DArray(src) == [i \in DOMAIN src |-> [j \in DOMAIN src[i] |-> src[i][j]]]

\* A sequence of stores <<row, col, value>> made in order into the grid.
Store(modules, writes) ==
    [r \in DOMAIN modules |-> [c \in DOMAIN modules[r] |->
        LET ks == {k \in 1..Len(writes) : writes[k][1] = r /\ writes[k][2] = c}
        IN  IF ks = {} THEN modules[r][c]
            ELSE writes[CHOOSE k \in ks : \A j \in ks : j <= k][3]]]

isOutOfBounds(modulesCount, index) == index <= -1 \/ modulesCount <= index

\* The value setModuleValue stores for offset (r, c) of a finder pattern.
ProbeValue(r, c) ==
    B(\/ (0 <= r /\ r <= 6 /\ (c = 0 \/ c = 6))
      \/ (0 <= c /\ c <= 6 /\ (r = 0 \/ r = 6))
      \/ (2 <= r /\ r <= 4 /\ 2 <= c /\ c <= 4))

\* Every in-bounds cell (row + r, col + c), r and c in -1..7, is stored once.
SetupPositionProbePattern(modules, modulesCount, row, col) ==
    [i \in DOMAIN modules |-> [j \in DOMAIN modules[i] |->
        IF /\ (i - row) \in -1..7 /\ (j - col) \in -1..7
           /\ ~isOutOfBounds(modulesCount, i) /\ ~isOutOfBounds(modulesCount, j)
        THEN ProbeValue(i - row, j - col)
        ELSE modules[i][j]]]

AdjustValue(r, c) == B(r = -2 \/ r = 2 \/ c = -2 \/ c = 2 \/ (r = 0 /\ c = 0))

setPositionAdjustPattern(modules, row, col) ==
    [i \in DOMAIN modules |-> [j \in DOMAIN modules[i] |->
        IF (i - row) \in -2..2 /\ (j - col) \in -2..2
        THEN AdjustValue(i - row, j - col)
        ELSE modules[i][j]]]

\* for i := range pos { for j := range pos { ... } }, k = i * len(pos) + j.
RECURSIVE AdjustFrom(_, _, _)
AdjustFrom(modules, pos, k) ==
    IF k >= Len(pos) * Len(pos) THEN modules
    ELSE LET row == pos[(k \div Len(pos)) + 1]
             col == pos[(k % Len(pos)) + 1]
         IN  Let(IF modules[row][col] # Nil THEN modules
                 ELSE setPositionAdjustPattern(modules, row, col),
                 LAMBDA next : AdjustFrom(next, pos, k + 1))

SetupPositionAdjustPattern(modules, version) ==
    AdjustFrom(modules, PatternPosition(version), 0)

\* Column 6 (first loop) and row 6 (second loop), indices 8..modulesCount-9,
\* where the cell is still nil.
SetupTimingPattern(modules, modulesCount) ==
    [i \in DOMAIN modules |-> [j \in DOMAIN modules[i] |->
        IF j = 6 /\ i >= 8 /\ i < modulesCount - 8 /\ modules[i][j] = Nil THEN B(i % 2 = 0)
        ELSE IF i = 6 /\ j >= 8 /\ j < modulesCount - 8 /\ modules[i][j] = Nil THEN B(j % 2 = 0)
        ELSE modules[i][j]]]

\* The grid MakeImpl builds, and stores in precomputedQRBlanks, when the
\* version is not cached.
BlankModules(version, modulesCount) ==
    SetupTimingPattern(
        SetupPositionAdjustPattern(
            SetupPositionProbePattern(
                SetupPositionProbePattern(
                    SetupPositionProbePattern(NilModules(modulesCount), modulesCount, 0, 0),
                    modulesCount, modulesCount - 7, 0),
                modulesCount, 0, modulesCount - 7),
            version),
        modulesCount)

SetupTypeInfo(modules, modulesCount, errorCorrection, test, maskPattern) ==
    LET data == Or(Shl(errorCorrection, 3), maskPattern)
        bits == BCHTypeInfo(data)
        mod(i) == B(~test /\ BitAt(bits, i) = 1)
        vertical == [k \in 1..15 |->
                        LET i == k - 1
                        IN  IF i < 6 THEN <<i, 8, mod(i)>>
                            ELSE IF i < 8 THEN <<i + 1, 8, mod(i)>>
                            ELSE <<modulesCount - 15 + i, 8, mod(i)>>]
        horizontal == [k \in 1..15 |->
                        LET i == k - 1
                        IN  IF i < 8 THEN <<8, modulesCount - i - 1, mod(i)>>
                            ELSE IF i < 9 THEN <<8, 15 - i - 1 + 1, mod(i)>>
                            ELSE <<8, 15 - i - 1, mod(i)>>]
    IN  Store(modules, vertical \o horizontal \o <<(<<modulesCount - 8, 8, B(~test)>>)>>)

SetupTypeNumber(modules, modulesCount, version, test) ==
    LET bits == BCHTypeNumber(version)
        mod(i) == B(~test /\ BitAt(bits, i) = 1)
        first == [k \in 1..18 |->
                    LET i == k - 1
                    IN  <<i \div 3, (i % 3) + modulesCount - 8 - 3, mod(i)>>]
        second == [k \in 1..18 |->
                    LET i == k - 1
                    IN  <<(i % 3) + modulesCount - 8 - 3, i \div 3, mod(i)>>]
    IN  Store(modules, first \o second)

\* MapData. The loop state is [modules, row, inc, bitIndex, byteIndex].

\* A cell stored into whatever it holds.
StoreCell(s, c, data, maskPattern) ==
    [s EXCEPT !.modules[s.row][c] = B(MaskFunc(maskPattern, s.row, c))]

\* One cell of colRange at the current row.
MapCell(s, c, data, maskPattern) ==
    IF s.modules[s.row][c] = Nil
    THEN LET bit == IF s.byteIndex < Len(data)
                    THEN BitAt(data[s.byteIndex + 1], s.bitIndex) = 1
                    ELSE FALSE
             dark == IF MaskFunc(maskPattern, s.row, c) THEN ~bit ELSE bit
             bitIndex == s.bitIndex - 1
         IN  [s EXCEPT !.modules[s.row][c] = B(dark),
                       !.bitIndex = IF bitIndex = -1 THEN 7 ELSE bitIndex,
                       !.byteIndex = IF bitIndex = -1 THEN @ + 1 ELSE @]
    ELSE s

\* The inner for { } of one column pair, until its break.
RECURSIVE MapRows(_, _, _, _, _)
MapRows(s, col, modulesCount, data, maskPattern) ==
    Let(MapCell(MapCell(s, col, data, maskPattern), col - 1, data, maskPattern),
        LAMBDA s2 :
        LET row == s2.row + s2.inc
        IN  IF row < 0 \/ row >= modulesCount
            THEN [s2 EXCEPT !.inc = -s2.inc]
            ELSE MapRows([s2 EXCEPT !.row = row], col, modulesCount, data, maskPattern))

\* for col := modulesCount - 1; col > 0; col -= 2 { if col <= 6 { col-- } ... }
\* (col is the loop variable: the decrement in the body stays).
RECURSIVE MapCols(_, _, _, _, _)
MapCols(s, col0, modulesCount, data, maskPattern) ==
    IF ~(col0 > 0) THEN s
    ELSE LET col == IF col0 <= 6 THEN col0 - 1 ELSE col0
         IN  Let(MapRows(s, col, modulesCount, data, maskPattern),
                 LAMBDA next : MapCols(next, col - 2, modulesCount, data, maskPattern))

MapData(modules, modulesCount, data, maskPattern) ==
    MapCols([modules |-> modules, row |-> modulesCount - 1, inc |-> -1,
             bitIndex |-> 7, byteIndex |-> 0],
            modulesCount - 1, modulesCount, data, maskPattern).modules

\* ------------------------------------------------------------------------
\* utils/utils.go: penalty scoring. The grid's cells are pointers: == and !=
\* on two cells compare the pointers, * reads the bool and panics on nil.
\* Cells at different places of one grid hold different pointers (each was
\* stored from a fresh variable, and Copy2DArray keeps every pointer at its
\* place), so two cells are == exactly when they are the same place or both
\* nil. Ptr is the identity of the pointer in a cell.

NilPtr == <<-1, -1>>

Ptr(modules, row, col) == IF modules[row][col] = Nil THEN NilPtr ELSE <<row, col>>

\* One line of lostPointLevel1: ptrs[k], k in 0..modulesCount-1, are the
\* line's pointers; the result is the sequence of run lengths >= 5 counted.
RECURSIVE Level1Line(_, _, _, _, _)
Level1Line(ptrs, modulesCount, col, previousColor, length) ==
    IF col >= modulesCount
    THEN IF length >= 5 THEN <<length>> ELSE << >>
    ELSE IF ptrs[col] = previousColor
         THEN Level1Line(ptrs, modulesCount, col + 1, previousColor, length + 1)
         ELSE (IF length >= 5 THEN <<length>> ELSE << >>)
              \o Level1Line(ptrs, modulesCount, col + 1, ptrs[col], 1)

RECURSIVE SumRuns(_)
SumRuns(runs) == IF Len(runs) = 0 THEN 0 ELSE (runs[1] - 2) + SumRuns(Tail(runs))

RECURSIVE SumOver(_, _)
SumOver(f, n) == IF n < 0 THEN 0 ELSE f[n] + SumOver(f, n - 1)

lostPointLevel1(modules, modulesCount) ==
    LET rows == [row \in 0..(modulesCount - 1) |->
                    SumRuns(Level1Line([col \in 0..(modulesCount - 1) |-> Ptr(modules, row, col)],
                                       modulesCount, 0, Ptr(modules, row, 0), 0))]
        cols == [col \in 0..(modulesCount - 1) |->
                    SumRuns(Level1Line([row \in 0..(modulesCount - 1) |-> Ptr(modules, row, col)],
                                       modulesCount, 0, Ptr(modules, 0, col), 0))]
    IN  SumOver(rows, modulesCount - 1) + SumOver(cols, modulesCount - 1)

\* One row of lostPointLevel2 from column col on.
RECURSIVE Level2Row(_, _, _, _)
Level2Row(modules, modulesCount, row, col) ==
    IF col >= modulesCount - 1 THEN 0
    ELSE LET topRight == Ptr(modules, row, col + 1)
         IN  IF topRight # Ptr(modules, row + 1, col + 1)
             THEN Level2Row(modules, modulesCount, row, col + 2)
             ELSE IF topRight # Ptr(modules, row, col)
             THEN Level2Row(modules, modulesCount, row, col + 1)
             ELSE IF topRight # Ptr(modules, row + 1, col)
             THEN Level2Row(modules, modulesCount, row, col + 1)
             ELSE 3 + Level2Row(modules, modulesCount, row, col + 1)

lostPointLevel2(modules, modulesCount) ==
    SumOver([row \in 0..(modulesCount - 2) |-> Level2Row(modules, modulesCount, row, 0)],
            modulesCount - 2)

\* The panic of a nil dereference, as a score.
Panicked == -1

\* A && chain of dereferences tests[k] = <<offset, wanted>> of line at col,
\* left to right: "panic" at a nil cell, "false" at the first test that
\* fails (the rest is not evaluated), else "true".
RECURSIVE AndChain(_, _, _, _)
AndChain(line, col, tests, k) ==
    IF k > Len(tests) THEN "true"
    ELSE LET cell == line[col + tests[k][1]]
         IN  IF cell = Nil THEN "panic"
             ELSE IF cell # tests[k][2] THEN "false"
             ELSE AndChain(line, col, tests, k + 1)

Level3Head == << <<1, 0>>, <<4, 1>>, <<5, 0>>, <<6, 1>>, <<9, 0>> >>
Level3Dark == << <<0, 1>>, <<2, 1>>, <<3, 1>>, <<7, 0>>, <<8, 0>>, <<10, 0>> >>
Level3Light == << <<0, 0>>, <<2, 0>>, <<3, 0>>, <<7, 1>>, <<8, 1>>, <<10, 1>> >>

Level3Match(line, col) ==
    LET head == AndChain(line, col, Level3Head, 1)
        dark == AndChain(line, col, Level3Dark, 1)
        light == AndChain(line, col, Level3Light, 1)
    IN  IF head # "true" THEN head
        ELSE IF dark # "false" THEN dark
        ELSE light

\* One line (a row, or a column) of lostPointLevel3 from index col on:
\* its points, or Panicked.
RECURSIVE Level3Line(_, _, _)
Level3Line(line, modulesCount, col) ==
    IF col >= modulesCount - 10 THEN 0
    ELSE LET match == Level3Match(line, col)
         IN  IF match = "panic" \/ line[col + 10] = Nil THEN Panicked
             ELSE LET rest == Level3Line(line, modulesCount,
                                         IF line[col + 10] = 1 THEN col + 2 ELSE col + 1)
                  IN  IF rest = Panicked THEN Panicked
                      ELSE (IF match = "true" THEN 40 ELSE 0) + rest

lostPointLevel3(modules, modulesCount) ==
    Let([row \in 0..(modulesCount - 1) |-> Level3Line(modules[row], modulesCount, 0)],
        LAMBDA rows :
    Let([col \in 0..(modulesCount - 1) |->
            Level3Line([row \in 0..(modulesCount - 1) |-> modules[row][col]],
                       modulesCount, 0)],
        LAMBDA cols :
        IF \E k \in 0..(modulesCount - 1) : rows[k] = Panicked \/ cols[k] = Panicked
        THEN Panicked
        ELSE SumOver(rows, modulesCount - 1) + SumOver(cols, modulesCount - 1)))

\* rating = int(math.Abs(percent*100-50) / 5), percent = darkCount / count^2:
\* in integers, |100 darkCount - 50 count^2| \div (5 count^2).
lostPointLevel4(modules, modulesCount) ==
    IF \E r \in DOMAIN modules : \E c \in DOMAIN modules[r] : modules[r][c] = Nil
    THEN Panicked
    ELSE LET darkCount == Cardinality({rc \in (DOMAIN modules) \X (DOMAIN modules) :
                                            modules[rc[1]][rc[2]] = 1})
             count2 == modulesCount * modulesCount
             diff == 100 * darkCount - 50 * count2
             rating == (IF diff < 0 THEN -diff ELSE diff) \div (5 * count2)
         IN  rating * 10

\* LostPoint: the sum of the four levels, or Panicked when level 3 or level 4
\* dereferences a nil cell (levels 1 and 2 dereference nothing).
LostPoint(modules) ==
    LET modulesCount == Size(modules)
    IN  Let(lostPointLevel3(modules, modulesCount), LAMBDA l3 :
        Let(lostPointLevel4(modules, modulesCount), LAMBDA l4 :
            IF l3 = Panicked \/ l4 = Panicked THEN Panicked
            ELSE lostPointLevel1(modules, modulesCount)
                 + lostPointLevel2(modules, modulesCount) + l3 + l4))

\* ------------------------------------------------------------------------
\* qr/qrcode.go: the symbol. q is the receiver *QRCode, the record of its
\* fields [version, errorCorrection, border, maskPattern, modules,
\* modulesCount, DataList, dataCache]; blanks is precomputedQRBlanks. A nil
\* dataCache is NilSlice. An operation that can panic returns a record with
\* the panic value in err ("" when it returned) and the fields as the panic
\* left them.

CheckBoxSize(size) == ~(size < 0)

CheckBorder(border) == ~(border < 0)

CheckMaskPattern(pattern) == ~(pattern < 0 \/ pattern > 7)

\* BIT_LIMIT_TABLE[errorCorrection][version]
BIT_LIMIT_TABLE(errorCorrection, version) ==
    LET rsBlocks == RSBlocks(version, errorCorrection)
    IN  8 * SumDataCount(rsBlocks, Len(rsBlocks))

\* Clear
Clear(q) ==
    [q EXCEPT !.modules = NoModules, !.modulesCount = 0,
              !.dataCache = NilSlice, !.DataList = << >>]

\* Version and BestFit return the version, or Panicked. BestFit writes the
\* segments into a buffer it then drops (the bisection over BIT_LIMIT_TABLE
\* is commented out in the source), and changes no field.
RECURSIVE BestFit(_, _)
Version(q) == IF q.version = 0 THEN BestFit(q, q.version) ELSE q.version

BestFit(q, start) ==
    IF ~CheckVersion(start) THEN Panicked
    ELSE LET modeSizes == ModeSizeVersion(start)
             v == Version(q)
         IN  IF v = Panicked \/ v = 41 THEN Panicked
             ELSE IF modeSizes = ModeSizeVersion(v) THEN v
             ELSE BestFit(q, v)

\* MakeImpl: [err, q, blanks].
MakeImpl(q, blanks, test, maskPattern) ==
    Let(Version(q), LAMBDA v :
    IF v = Panicked THEN [err |-> "Invalid version", q |-> q, blanks |-> blanks]
    ELSE
    Let(v * 4 + 17, LAMBDA modulesCount :
    \* the blank grid: a copy of the cached one, or a new one, then cached
    Let(IF v \in DOMAIN blanks THEN Copy2DArray(blanks[v])
        ELSE BlankModules(v, modulesCount),
        LAMBDA m0 :
    Let(IF v \in DOMAIN blanks THEN blanks
        ELSE [k \in DOMAIN blanks \cup {v} |->
                 IF k = v THEN Copy2DArray(m0) ELSE blanks[k]],
        LAMBDA blanks1 :
    Let(SetupTypeInfo(m0, modulesCount, q.errorCorrection, test, maskPattern),
        LAMBDA m1 :
    Let(IF v >= 7 THEN SetupTypeNumber(m1, modulesCount, q.version, test) ELSE m1,
        LAMBDA m2 :
    Let(IF q.dataCache = NilSlice
        THEN CreateData(v, q.errorCorrection, q.DataList)
        ELSE [status |-> "ok", data |-> q.dataCache],
        LAMBDA created :
    IF created.status # "ok"
    THEN [err |-> IF created.status = "err" THEN "DataOverflowError" ELSE "LengthInBits",
          q |-> [q EXCEPT !.modulesCount = modulesCount, !.modules = m2],
          blanks |-> blanks1]
    ELSE
    Let(IF created.data = NilSlice THEN << >> ELSE created.data, LAMBDA dataCache :
        [err |-> "",
         q |-> [q EXCEPT !.modulesCount = modulesCount,
                         !.modules = MapData(m2, modulesCount, dataCache, maskPattern),
                         !.dataCache = dataCache],
         blanks |-> blanks1]))))))))

\* int(^uint(0) >> 1), the first minLostPoint: the largest integer of the
\* model (every lostPoint is far below it, and pattern 0 replaces it).
MaxInt == 2147483647

\* BestMaskPattern: [err, q, blanks, bestPattern, scores], scores the
\* lostPoint of every pattern tried so far. s is the loop state.
RECURSIVE BestMaskLoop(_, _)
BestMaskLoop(s, pattern) ==
    IF ~(pattern < 8) THEN s
    ELSE
    Let(MakeImpl(s.q, s.blanks, TRUE, pattern), LAMBDA made :
    IF made.err # ""
    THEN [s EXCEPT !.err = made.err, !.q = made.q, !.blanks = made.blanks]
    ELSE
    Let(LostPoint(made.q.modules), LAMBDA lostPoint :
    IF lostPoint = Panicked
    THEN [s EXCEPT !.err = "nil pointer dereference", !.q = made.q,
                   !.blanks = made.blanks, !.scores = Append(@, Panicked)]
    ELSE
    Let(pattern = 0 \/ s.minLostPoint > lostPoint, LAMBDA better :
        BestMaskLoop([err |-> "", q |-> made.q, blanks |-> made.blanks,
                      minLostPoint |-> IF better THEN lostPoint ELSE s.minLostPoint,
                      bestPattern |-> IF better THEN pattern ELSE s.bestPattern,
                      scores |-> Append(s.scores, lostPoint)],
                     pattern + 1))))

BestMaskPattern(q, blanks) ==
    BestMaskLoop([err |-> "", q |-> q, blanks |-> blanks,
                  minLostPoint |-> MaxInt, bestPattern |-> 0,
                  scores |-> << >>], 0)

\* Make: [err, ret, q, blanks, scores, mask]. ret is the returned error, nil
\* ("nil") on every return; scores is what BestMaskPattern scored (empty when
\* it did not run) and mask the pattern of the last MakeImpl(false, _), -1
\* when that call was not reached.
Make(q, blanks, fit) ==
    LET none == [err |-> "", ret |-> "nil", q |-> q, blanks |-> blanks,
                 scores |-> << >>, mask |-> -1]
    IN  \* if fit || q.Version() == 0 { q.BestFit(q.Version()) }
        Let(Version(q), LAMBDA v :
        Let(IF fit \/ v = 0 THEN BestFit(q, v) ELSE v, LAMBDA fitted :
        IF v = Panicked \/ fitted = Panicked
        THEN [none EXCEPT !.err = "Invalid version"]
        ELSE
        \* if q.maskPattern == 0 { q.MakeImpl(false, q.BestMaskPattern()) }
        \* else { q.MakeImpl(false, q.maskPattern) }
        Let(IF q.maskPattern = 0 THEN BestMaskPattern(q, blanks)
            ELSE [err |-> "", q |-> q, blanks |-> blanks,
                  bestPattern |-> q.maskPattern, scores |-> << >>],
            LAMBDA best :
        IF best.err # ""
        THEN [none EXCEPT !.err = best.err, !.q = best.q, !.blanks = best.blanks,
                          !.scores = best.scores]
        ELSE
        Let(MakeImpl(best.q, best.blanks, FALSE, best.bestPattern), LAMBDA made :
            [none EXCEPT !.err = made.err, !.q = made.q, !.blanks = made.blanks,
                         !.scores = best.scores, !.mask = best.bestPattern]))))

\* The [][]bool GetMatrix returns from the grid: false for a nil cell, and
\* border rows and columns of false around it.
\* The grid without its quiet zone: the branch GetMatrix takes for border 0.
BareMatrix(modules, border) ==
    [i \in DOMAIN modules |-> [j \in DOMAIN modules[i] |-> modules[i][j] = 1]]

BoolMatrix(modules, border) ==
    LET n == Size(modules)
        width == n + border * 2
    IN  [i \in 0..(width - 1) |-> [j \in 0..(width - 1) |->
            IF /\ i >= border /\ i < border + n /\ j >= border /\ j < border + n
               /\ modules[i - border][j - border] = 1
            THEN TRUE ELSE FALSE]]

\* GetMatrix: [err, q, blanks, matrix].
GetMatrix(q, blanks) ==
    Let(IF q.dataCache = NilSlice THEN Make(q, blanks, TRUE)
        ELSE [err |-> "", q |-> q, blanks |-> blanks],
        LAMBDA made :
        IF made.err # ""
        THEN [err |-> made.err, q |-> made.q, blanks |-> made.blanks, matrix |-> << >>]
        ELSE [err |-> "", q |-> made.q, blanks |-> made.blanks,
              matrix |-> BoolMatrix(made.q.modules, made.q.border)])

\* SetVersion: [err, q].
SetVersion(q, value) ==
    IF value # 0 /\ ~CheckVersion(value) THEN [err |-> "Invalid version", q |-> q]
    ELSE [err |-> "", q |-> [q EXCEPT !.version = value]]

\* SetMaskPattern: [err, q].
SetMaskPattern(q, value) ==
    IF ~CheckMaskPattern(value) THEN [err |-> "Invalid mask pattern", q |-> q]
    ELSE [err |-> "", q |-> [q EXCEPT !.maskPattern = value]]

\* The segment put in front of the list, whatever optimize is.
PrependData(q, data, optimize) ==
    [ret |-> "nil",
     q |-> [q EXCEPT !.DataList = <<NewQRData(data, 0, TRUE).q>> \o @,
                     !.dataCache = NilSlice]]

\* AddData of a string: [ret, q], ret the returned error ("nil" or "error").
AddData(q, data, optimize) ==
    IF optimize < 0 THEN [ret |-> "error", q |-> q]
    ELSE IF optimize > 0
    THEN [ret |-> "nil",
          q |-> [q EXCEPT !.DataList = @ \o OptimalDataChunks(data, optimize),
                          !.dataCache = NilSlice]]
    ELSE LET made == NewQRData(data, 0, TRUE)
         IN  IF ~made.ok THEN [ret |-> "error", q |-> q]
             ELSE [ret |-> "nil",
                   q |-> [q EXCEPT !.DataList = Append(@, made.q),
                                   !.dataCache = NilSlice]]

\* NewQRCode: [err, ret, q]; q is meaningful when err = "" and ret = "nil".
NewQRCode(version, errorCorrection, boxSize, border, maskPattern) ==
    LET qr == [version |-> version, errorCorrection |-> errorCorrection,
               BoxSize |-> boxSize, border |-> border, maskPattern |-> maskPattern,
               modules |-> NoModules, modulesCount |-> 0,
               DataList |-> << >>, dataCache |-> NilSlice]
        set == SetVersion(qr, version)
    IN  IF ~CheckBoxSize(boxSize) \/ ~CheckBorder(border)
           \/ (maskPattern # 0 /\ ~CheckMaskPattern(maskPattern))
        THEN [err |-> "", ret |-> "error", q |-> qr]
        ELSE IF set.err # "" THEN [err |-> set.err, ret |-> "nil", q |-> qr]
        ELSE [err |-> "", ret |-> "nil", q |-> Clear(set.q)]

\* ------------------------------------------------------------------------
\* The program: one symbol q in use at a time, the package variable
\* precomputedQRBlanks, and the record of the last call on the symbol,
\* call = [op, fit, err, ret, scores, mask, matrix]: err is the panic value
\* ("" when the call returned), ret the returned error, and scores, mask,
\* matrix what Make and GetMatrix report (see Make, GetMatrix). A panic is not
\* recovered: it ends the program.
\*
\* pc and held belong to the builders of SpecConc; arg and res to the
\* specifications of the pure functions.

VARIABLES q, precomputedQRBlanks, call, pc, held, arg, res

vars == <<q, precomputedQRBlanks, call, pc, held, arg, res>>

\* Inputs of the model.
Versions == 0..MaxVersion
ErrorCorrections == {ERROR_CORRECT_H}
MaskPatterns == {0, 3}
\* "01234567" and "HELLO WORLD"
Payloads == {<<48, 49, 50, 51, 52, 53, 54, 55>>,
             <<72, 69, 76, 76, 79, 32, 87, 79, 82, 76, 68>>}
Optimizes == {0, 4}
Borders == {0, 1}
\* Versions no symbol has.
BadVersions == {-1, 41}

NoCall(op) ==
    [op |-> op, fit |-> FALSE, err |-> "", ret |-> "nil", scores |-> << >>,
     mask |-> -1, matrix |-> << >>]

Running == call.err = ""

Init ==
    /\ \E version \in Versions, errorCorrection \in ErrorCorrections,
          border \in Borders, maskPattern \in MaskPatterns :
          q = NewQRCode(version, errorCorrection, 10, border, maskPattern).q
    /\ precomputedQRBlanks = << >>
    /\ call = NoCall("NewQRCode")
    /\ pc = << >> /\ held = << >> /\ arg = << >> /\ res = << >>

DoSetVersion ==
    /\ Running
    /\ \E value \in Versions \cup BadVersions :
          LET r == SetVersion(q, value)
          IN  /\ q' = r.q
              /\ call' = [NoCall("SetVersion") EXCEPT !.err = r.err]
    /\ UNCHANGED <<precomputedQRBlanks, pc, held, arg, res>>

DoSetMaskPattern ==
    /\ Running
    /\ \E value \in MaskPatterns :
          LET r == SetMaskPattern(q, value)
          IN  /\ q' = r.q
              /\ call' = [NoCall("SetMaskPattern") EXCEPT !.err = r.err]
    /\ UNCHANGED <<precomputedQRBlanks, pc, held, arg, res>>

DoAddData ==
    /\ Running
    /\ \E data \in Payloads, optimize \in Optimizes :
          \E r \in {AddData(q, data, optimize)} :
              /\ Len(r.q.DataList) <= MaxSegs
              /\ q' = r.q
              /\ call' = [NoCall("AddData") EXCEPT !.ret = r.ret]
    /\ UNCHANGED <<precomputedQRBlanks, pc, held, arg, res>>

DoMake ==
    /\ Running
    /\ \E fit \in BOOLEAN :
          \E r \in {Make(q, precomputedQRBlanks, fit)} :
              /\ q' = r.q
              /\ precomputedQRBlanks' = r.blanks
              /\ call' = [NoCall("Make") EXCEPT !.fit = fit, !.err = r.err,
                              !.ret = r.ret, !.scores = r.scores, !.mask = r.mask]
    /\ UNCHANGED <<pc, held, arg, res>>

DoGetMatrix ==
    /\ Running
    /\ \E r \in {GetMatrix(q, precomputedQRBlanks)} :
          /\ q' = r.q
          /\ precomputedQRBlanks' = r.blanks
          /\ call' = [NoCall("GetMatrix") EXCEPT !.err = r.err, !.matrix = r.matrix]
    /\ UNCHANGED <<pc, held, arg, res>>

Next == DoSetVersion \/ DoSetMaskPattern \/ DoAddData \/ DoMake \/ DoGetMatrix

Spec == Init /\ [][Next]_vars

\* ------------------------------------------------------------------------
\* Properties of the symbol (under Spec).

\* The bits of the segments at a version: per segment the 4-bit mode header,
\* the character count indicator and the payload.
TotalBits(dataList, version) ==
    PutSegments(NewBitBuffer, dataList, ModeSizeVersion(version), 1).length

FitsIn(version) ==
    TotalBits(q.DataList, version) <= BIT_LIMIT_TABLE(q.errorCorrection, version)

\* C1: a build run with fit requested, or on version 0, completes with the
\* symbol's version in 1..40 and equal to the smallest version whose data
\* capacity at the symbol's EC level holds the segments' bits. (Builds that
\* stop in mask scoring are left to C6.)
C1_BestFitSelectsSmallestVersion ==
    (/\ call.op = "Make"
     /\ call.fit \/ q.version = 0
     /\ call.err # "nil pointer dereference")
    => /\ call.err = ""
       /\ q.version \in 1..40
       /\ FitsIn(q.version)
       /\ \A w \in 1..(q.version - 1) : ~FitsIn(w)

\* C2: a build at the configured version (no fit) whose segments exceed the
\* capacity of that version returns a DataOverflow error: it does not panic,
\* and does not return nil.
C2_OverflowIsReturnedAsError ==
    (/\ call.op = "Make"
     /\ ~call.fit
     /\ q.version \in 1..40
     /\ ~FitsIn(q.version))
    => /\ call.err = ""
       /\ call.ret = "DataOverflowError"

\* C3: a build that fails leaves every field of the symbol as it was before
\* the build started. (Builds that stop in mask scoring are left to C6.)
C3_FailedBuildChangesNothing ==
    [][(/\ call'.op = "Make"
        /\ call'.err # "" \/ call'.ret # "nil"
        /\ call'.err # "nil pointer dereference") => q' = q]_vars

\* C4: a build or GetMatrix that completes leaves the grid of the symbol's
\* current version (4 * version + 17 modules a side) and the codewords
\* computed for the current version, EC level and segments, whatever was
\* built before the last SetVersion or SetMaskPattern.
C4_ParameterChangeInvalidatesCache ==
    (call.op \in {"Make", "GetMatrix"} /\ call.err = "" /\ q.version \in 1..40)
    => /\ Size(q.modules) = 4 * q.version + 17
       /\ q.dataCache = CreateData(q.version, q.errorCorrection, q.DataList).data
       /\ call.op = "GetMatrix" => Size(call.matrix) = 4 * q.version + 17 + 2 * q.border

\* C5: whatever mask 0..7 the symbol is configured with, a build scores no
\* candidate mask, and a build that completes leaves the matrix built with
\* exactly that mask, in the format information and in the data masking.
C5_ConfiguredMaskBypassesSelection ==
    (call.op = "Make" /\ q.maskPattern \in 0..7)
    => /\ call.scores = << >>
       /\ call.err = ""
            => /\ call.mask = q.maskPattern
               /\ q.modules =
                    MakeImpl(q, precomputedQRBlanks, FALSE, q.maskPattern).q.modules

\* C6: with the mask on auto (maskPattern 0) a build, unless the version or
\* the data's length stops it, scores the eight masks 0..7 and builds the
\* final matrix with the lowest-numbered mask of minimal score.
C6_AutoMaskPicksMinimalScore ==
    (/\ call.op = "Make"
     /\ q.maskPattern = 0
     /\ call.err \notin {"Invalid version", "DataOverflowError"})
    => /\ call.err = ""
       /\ Len(call.scores) = 8
       /\ call.mask \in 0..7
       /\ \A p \in 0..7 :
            /\ call.scores[call.mask + 1] <= call.scores[p + 1]
            /\ call.scores[p + 1] = call.scores[call.mask + 1] => call.mask <= p

\* A second symbol of the same version, EC level, mask and segments, newly
\* made and built with precomputedQRBlanks empty.
FreshMake ==
    LET new == NewQRCode(q.version, q.errorCorrection, q.BoxSize, q.border,
                         q.maskPattern).q
    IN  Make([new EXCEPT !.DataList = q.DataList], << >>, call.fit)

\* C8: the matrix a build leaves equals the matrix of a second symbol with
\* equal version, EC level, mask and segments built from scratch, whatever
\* this symbol and the blank cache went through before.
C8_BuildIsDeterministic ==
    (call.op = "Make" /\ call.err = "")
    => LET fresh == FreshMake
       IN  Eval(fresh) /\ (fresh.err = "" => fresh.q.modules = q.modules)

\* C11: GetMatrix of a built symbol of N = 4 * version + 17 modules a side
\* and quiet zone b returns a square of side N + 2b whose cell (i+b, j+b) is
\* dark exactly when module (i, j) is, and whose other cells are light.
C11_MatrixIsGridInQuietZone ==
    (/\ call.op = "GetMatrix"
     /\ call.err = ""
     /\ Size(q.modules) = 4 * q.version + 17)
    => LET N == 4 * q.version + 17
           b == q.border
           side == 0..(N + 2 * b - 1)
       IN  /\ DOMAIN call.matrix = side
           /\ \A r \in side : DOMAIN call.matrix[r] = side
           /\ \A i, j \in 0..(N - 1) :
                 call.matrix[i + b][j + b] = (q.modules[i][j] = 1)
           /\ \A r, c \in side :
                 (r < b \/ r >= N + b \/ c < b \/ c >= N + b)
                 => call.matrix[r][c] = FALSE

\* C11: GetMatrix has returned the grid of a symbol with a quiet zone.
C11_Witness ==
    /\ call.op = "GetMatrix"
    /\ call.err = ""
    /\ Size(q.modules) = 4 * q.version + 17
    /\ q.border > 0
    /\ \E i, j \in 0..(Size(q.modules) - 1) : q.modules[i][j] = 1

\* C17: a build never stops in mask scoring on a cell that was not
\* assigned, and a build that completes leaves no cell of the grid nil.
C17_NoCellLeftUnset ==
    call.op \in {"Make", "GetMatrix"}
    => /\ call.err # "nil pointer dereference"
       /\ call.err = ""
            => \A r, c \in 0..(Size(q.modules) - 1) : q.modules[r][c] # Nil

\* The cells of the function patterns of a version: the three finders with
\* their separators, the timing lines, and the alignment patterns whose
\* centre lies outside the finders.
InFinder(version, r, c) ==
    LET N == 4 * version + 17
    IN  (r <= 7 /\ c <= 7) \/ (r <= 7 /\ c >= N - 8) \/ (r >= N - 8 /\ c <= 7)

FunctionCell(version, r, c) ==
    \/ InFinder(version, r, c)
    \/ r = 6 \/ c = 6
    \/ \E i, j \in 1..Len(PatternPosition(version)) :
          LET row == PatternPosition(version)[i]
              col == PatternPosition(version)[j]
          IN  /\ ~InFinder(version, row, col)
              /\ r \in (row - 2)..(row + 2) /\ c \in (col - 2)..(col + 2)

InitNew ==
    /\ arg \in [version : Versions \cup BadVersions, boxSize : {-1, 0, 1, 10},
                border : {-1, 0, 4}, maskPattern : {-1, 0, 7, 8}]
    /\ call = NoCall("")
    /\ q = NewQRCode(1, ERROR_CORRECT_H, 10, 0, 0).q
    /\ precomputedQRBlanks = << >>
    /\ pc = << >> /\ held = << >> /\ res = << >>

DoNewQRCode ==
    /\ call.op = ""
    /\ \E r \in {NewQRCode(arg.version, ERROR_CORRECT_H, arg.boxSize, arg.border,
                            arg.maskPattern)} :
          /\ call' = [NoCall("NewQRCode") EXCEPT !.err = r.err, !.ret = r.ret]
          /\ q' = IF r.err = "" /\ r.ret = "nil" THEN r.q ELSE q
    /\ UNCHANGED <<precomputedQRBlanks, pc, held, arg, res>>

NextNew == DoNewQRCode \/ (call.op # "" /\ call.ret = "nil" /\ DoSetVersion)

SpecNew == InitNew /\ [][NextNew]_vars

\* C12: NewQRCode and SetVersion never panic; NewQRCode given a version
\* outside 0..40 returns an error and no symbol, and SetVersion given one
\* leaves the symbol's version as it was, in 0..40.
C12_InvalidVersionIsReturned ==
    /\ call.op \in {"NewQRCode", "SetVersion"} => call.err = ""
    /\ (call.op = "NewQRCode" /\ arg.version \notin 0..40) => call.ret = "error"
    /\ call.op = "SetVersion" => q.version \in 0..40

\* C13: NewQRCode given a boxSize below 1 (0 included) returns an error and
\* no symbol.
C13_BoxSizeBelowOneIsRejected ==
    (call.op = "NewQRCode" /\ arg.boxSize < 1 /\ call.err = "")
    => call.ret = "error"

\* ------------------------------------------------------------------------
\* OptimalMode and OptimalDataChunks on their own: arg = [data, minimum] is
\* the input, call.op the function applied and res its result.

\* '7', 'A', ',' and 'a'
Bytes == {55, 65, 44, 97}

Strings == UNION {[1..n -> Bytes] : n \in 0..MaxLen}

InitData ==
    /\ arg \in [data : Strings, minimum : 1..MaxMinimum]
    /\ res = << >>
    /\ call = NoCall("")
    /\ q = NewQRCode(1, ERROR_CORRECT_H, 10, 0, 0).q
    /\ precomputedQRBlanks = << >>
    /\ pc = << >> /\ held = << >>

DoOptimalMode ==
    /\ call.op = ""
    /\ res' = OptimalMode(arg.data)
    /\ call' = NoCall("OptimalMode")
    /\ UNCHANGED <<q, precomputedQRBlanks, pc, held, arg>>

DoOptimalDataChunks ==
    /\ call.op = ""
    /\ res' = OptimalDataChunks(arg.data, arg.minimum)
    /\ call' = NoCall("OptimalDataChunks")
    /\ UNCHANGED <<q, precomputedQRBlanks, pc, held, arg>>

NextData == DoOptimalMode \/ DoOptimalDataChunks

SpecData == InitData /\ [][NextData]_vars

\* The 45 symbols 0-9 A-Z space $ % * + - . / :
Alphabet45 == {AlphanumericChars[i] : i \in 1..Len(AlphanumericChars)}

AllIn(data, set) == \A i \in 1..Len(data) : data[i] \in set

\* C9: OptimalMode is NUMERIC exactly on the strings of ASCII digits,
\* otherwise ALPHANUMERIC exactly on the strings over the 45-symbol
\* alphabet, and BYTE on every other string.
C9_OptimalModeClassifies ==
    call.op = "OptimalMode"
    => res = IF AllIn(arg.data, 48..57) THEN ModeNumeric
             ELSE IF AllIn(arg.data, Alphabet45) THEN ModeAlphanumeric
             ELSE ModeByte

RECURSIVE Concat(_, _)
Concat(chunks, i) ==
    IF i > Len(chunks) THEN << >> ELSE chunks[i].data \o Concat(chunks, i + 1)

\* C10: the payloads of the segments OptimalDataChunks returns, joined in
\* order, are the input; a NUMERIC segment holds digits only and an
\* ALPHANUMERIC segment symbols of the 45-symbol alphabet only. (The comma,
\* which the code's character class takes for a symbol, is left to C9.)
C10_ChunksPartitionInput ==
    call.op = "OptimalDataChunks"
    => /\ Concat(res, 1) = arg.data
       /\ \A i \in 1..Len(res) :
            /\ res[i].mode = ModeNumeric => AllIn(res[i].data, 48..57)
            /\ res[i].mode = ModeAlphanumeric => AllIn(res[i].data, Alphabet45 \cup {44})
            /\ res[i].mode \in {ModeNumeric, ModeAlphanumeric, ModeByte}

\* ------------------------------------------------------------------------
\* The tables and the functions of one build step on their own: arg is the
\* input, tagged with the function it is for (arg.fn), call.op the function
\* applied and res its result.

InitPure ==
    /\ arg \in [fn : {"RSBlocks"}, version : 1..40,
                errorCorrection : {ERROR_CORRECT_L, ERROR_CORRECT_M,
                                   ERROR_CORRECT_Q, ERROR_CORRECT_H}]
              \cup [fn : {"BCHTypeInfo"}, x : 0..31, y : 0..31]
              \cup [fn : {"glog"}, n : 0..255]
              \cup [fn : {"CreateData"}, version : {1, 3},
                     errorCorrection : {ERROR_CORRECT_Q, ERROR_CORRECT_H},
                     dataList : {<< >>} \cup
                         {<<NewQRData(data, 0, TRUE).q>> :
                             data \in Payloads \cup
                                 {[i \in 1..n |-> byte] : n \in {1, 24},
                                                         byte \in {0, 97}} \cup
                                 {[i \in 1..n |-> 48 + (i % 10)] :
                                     n \in {16, 17, 25, 26, 27}}}]
              \cup [fn : {"LostPoint"},
                     modules : [0..5 -> {[c \in 0..5 |-> 0],
                                         [c \in 0..5 |-> IF c < 5 THEN 1 ELSE 0],
                                         [c \in 0..5 |-> c % 2]}]]
              \cup [fn : {"Get"}, index : 0..17,
                     puts : UNION {[1..n -> {<<1, 1>>, <<5, 3>>, <<255, 8>>}] :
                                      n \in 0..2}]
              \cup [fn : {"AddData"}, data : Payloads, optimize : {-1, 0, 4},
                     DataList : UNION {[1..n -> {[data |-> <<55>>, mode |-> ModeNumeric],
                                                 [data |-> <<97, 98>>, mode |-> ModeByte]}] :
                                          n \in 0..2},
                     dataCache : {NilSlice, <<16, 32, 12>>}]
              \cup [fn : {"MapData"}, version : (1..MaxVersion) \cup {7},
                     maskPattern : 0..7,
                     data : {[i \in 1..n |-> byte] : n \in {0, 3, 200},
                                                    byte \in {85, 255}}]
    /\ res = << >>
    /\ call = NoCall("")
    /\ q = NewQRCode(1, ERROR_CORRECT_H, 10, 0, 0).q
    /\ precomputedQRBlanks = << >>
    /\ pc = << >> /\ held = << >>

DoRSBlocks ==
    /\ call.op = "" /\ arg.fn = "RSBlocks"
    /\ RSBlocksOk(arg.version, arg.errorCorrection)
    /\ res' = RSBlocks(arg.version, arg.errorCorrection)
    /\ call' = NoCall("RSBlocks")
    /\ UNCHANGED <<q, precomputedQRBlanks, pc, held, arg>>

\* The format information of two data values.
DoBCHTypeInfo ==
    /\ call.op = "" /\ arg.fn = "BCHTypeInfo"
    /\ res' = <<BCHTypeInfo(arg.x), BCHTypeInfo(arg.y)>>
    /\ call' = NoCall("BCHTypeInfo")
    /\ UNCHANGED <<q, precomputedQRBlanks, pc, held, arg>>

\* glog(n) and, where glog returns no error, Gexp of its result.
DoGlog ==
    /\ call.op = "" /\ arg.fn = "glog"
    /\ \E log \in {glog(arg.n)} :
          res' = [log |-> log, exp |-> IF log = GlogErr THEN GlogErr ELSE Gexp(log)]
    /\ call' = NoCall("glog")
    /\ UNCHANGED <<q, precomputedQRBlanks, pc, held, arg>>

\* The end of MakeImpl: the format and (from version 7) the version
\* information are written into the blank grid, then MapData maps the
\* codewords; res is the grid before and after MapData.
DoMapData ==
    /\ call.op = "" /\ arg.fn = "MapData"
    /\ \E modulesCount \in {arg.version * 4 + 17} :
       \E m1 \in {SetupTypeInfo(BlankModules(arg.version, modulesCount), modulesCount,
                                ERROR_CORRECT_H, FALSE, arg.maskPattern)} :
       \E m2 \in {IF arg.version >= 7
                  THEN SetupTypeNumber(m1, modulesCount, arg.version, FALSE)
                  ELSE m1} :
          res' = [before |-> m2,
                  after |-> MapData(m2, modulesCount, arg.data, arg.maskPattern)]
    /\ call' = NoCall("MapData")
    /\ UNCHANGED <<q, precomputedQRBlanks, pc, held, arg>>

DoCreateData ==
    /\ call.op = "" /\ arg.fn = "CreateData"
    /\ res' = CreateData(arg.version, arg.errorCorrection, arg.dataList)
    /\ call' = NoCall("CreateData")
    /\ UNCHANGED <<q, precomputedQRBlanks, pc, held, arg>>

\* CreateData up to its call of CreateBytes, for segments that do not
\* overflow: res is the buffer after the segments and the buffer handed on.
DoDataBuffer ==
    /\ call.op = "" /\ arg.fn = "CreateData"
    /\ \E buffer \in {PutSegments(NewBitBuffer, arg.dataList,
                                  ModeSizeVersion(arg.version), 1)} :
       \E bitLimit \in {BIT_LIMIT_TABLE(arg.errorCorrection, arg.version)} :
          /\ ~(buffer.length > bitLimit)
          /\ res' = [segments |-> buffer, padded |-> DataBuffer(buffer, bitLimit)]
    /\ call' = NoCall("DataBuffer")
    /\ UNCHANGED <<q, precomputedQRBlanks, pc, held, arg>>

\* The first two terms of LostPoint on a grid with every cell assigned, each
\* cell a pointer of its own as MakeImpl leaves them.
DoLostPoint ==
    /\ call.op = "" /\ arg.fn = "LostPoint"
    /\ res' = [level1 |-> lostPointLevel1(arg.modules, Size(arg.modules)),
               level2 |-> lostPointLevel2(arg.modules, Size(arg.modules))]
    /\ call' = NoCall("LostPoint")
    /\ UNCHANGED <<q, precomputedQRBlanks, pc, held, arg>>

\* Get(index) on a new buffer after the calls Put(num, length) of arg.puts:
\* res is the bit Get returns, or its panic, and the buffer's Len().
DoGet ==
    /\ call.op = "" /\ arg.fn = "Get"
    /\ \E b1 \in {IF Len(arg.puts) >= 1
                   THEN Put(NewBitBuffer, arg.puts[1][1], arg.puts[1][2])
                   ELSE NewBitBuffer} :
       \E b2 \in {IF Len(arg.puts) >= 2
                   THEN Put(b1, arg.puts[2][1], arg.puts[2][2])
                   ELSE b1} :
          res' = IF GetOk(b2, arg.index)
                 THEN [err |-> "", bit |-> Get(b2, arg.index), length |-> BufLen(b2)]
                 ELSE [err |-> "index out of range", bit |-> FALSE,
                       length |-> BufLen(b2)]
    /\ call' = NoCall("Get")
    /\ UNCHANGED <<q, precomputedQRBlanks, pc, held, arg>>

\* AddData on a symbol that has the segments and the cached codewords of
\* arg: res is what AddData returns and the symbol it leaves.
DoAddDataTo ==
    /\ call.op = "" /\ arg.fn = "AddData"
    /\ res' = AddData([q EXCEPT !.DataList = arg.DataList,
                                !.dataCache = arg.dataCache],
                      arg.data, arg.optimize)
    /\ call' = NoCall("AddData")
    /\ UNCHANGED <<q, precomputedQRBlanks, pc, held, arg>>

NextPure ==
    \/ DoRSBlocks \/ DoBCHTypeInfo \/ DoGlog \/ DoMapData \/ DoCreateData
    \/ DoDataBuffer \/ DoLostPoint \/ DoGet \/ DoAddDataTo

SpecPure == InitPure /\ [][NextPure]_vars

\* The number of codewords of the symbols of versions 1..40.
StandardTotal == <<
    26, 44, 70, 100, 134, 172, 196, 242, 292, 346,
    404, 466, 532, 581, 655, 733, 815, 901, 991, 1085,
    1156, 1258, 1364, 1474, 1588, 1706, 1828, 1921, 2051, 2185,
    2323, 2465, 2611, 2761, 2876, 3034, 3196, 3362, 3532, 3706>>

\* C14: the TotalCount of the blocks RSBlocks returns for a version 1..40
\* and any of the four EC levels add up to the standard number of codewords
\* of the version, and every block has 0 < DataCount < TotalCount.
C14_BlocksAddUpToStandardTotal ==
    call.op = "RSBlocks"
    => /\ SumTotalCount(res, Len(res)) = StandardTotal[arg.version]
       /\ \A i \in 1..Len(res) :
             0 < res[i].DataCount /\ res[i].DataCount < res[i].TotalCount

\* C14: RSBlocks has returned the blocks of a version that has two groups of
\* blocks.
C14_Witness ==
    /\ call.op = "RSBlocks"
    /\ arg.version = 40
    /\ \E i, j \in 1..Len(res) : res[i].TotalCount # res[j].TotalCount

\* The number of the 15 bits in which a and b differ.
Distance(a, b) ==
    Cardinality({k \in 0..14 : (a \div 2^k) % 2 # (b \div 2^k) % 2})

\* C15: the format information of two different data values 0..31 differs
\* in at least 7 of its 15 bits.
C15_FormatInfoDistanceSeven ==
    (call.op = "BCHTypeInfo" /\ arg.x # arg.y)
    => /\ res[1] \in 0..(2^15 - 1) /\ res[2] \in 0..(2^15 - 1)
       /\ Distance(res[1], res[2]) >= 7

\* C15: the format information of two data values one bit apart.
C15_Witness ==
    /\ call.op = "BCHTypeInfo"
    /\ arg.x = 30 /\ arg.y = 31
    /\ res[1] # res[2]

\* C16: Gexp(glog(n)) = n for n in 1..255, the exponent table holds each of
\* the 255 non-zero elements once, and glog(0) is an error.
C16_ExpUndoesLog ==
    call.op = "glog"
    => /\ arg.n = 0 => res.log = GlogErr
       /\ arg.n # 0 => (res.log \in 0..254 /\ res.exp = arg.n)
       /\ {EXP_TABLE[i] : i \in 0..254} = 1..255

\* C16: glog and Gexp have been applied to a non-zero element.
C16_Witness ==
    /\ call.op = "glog"
    /\ arg.n = 255
    /\ res.exp = 255

\* C18: every cell the function patterns, the format information or the
\* version information assigned holds after MapData the value it held
\* before, whatever the mask and the codewords; MapData assigns nil cells
\* only.
C18_MapDataKeepsAssignedCells ==
    call.op = "MapData"
    => /\ DOMAIN res.after = DOMAIN res.before
       /\ \A r \in DOMAIN res.before :
             /\ DOMAIN res.after[r] = DOMAIN res.before[r]
             /\ \A c \in DOMAIN res.before[r] :
                   res.before[r][c] # Nil => res.after[r][c] = res.before[r][c]

\* C18: MapData has mapped codewords into the grid of a version that has
\* version information, next to assigned cells of both values.
C18_Witness ==
    /\ call.op = "MapData"
    /\ arg.version = 7 /\ Len(arg.data) > 0
    /\ \E r, c \in DOMAIN res.before :
          res.before[r][c] = Nil /\ res.after[r][c] # Nil
    /\ \E r, c \in DOMAIN res.before : res.before[r][c] = 1
    /\ \E r, c \in DOMAIN res.before : res.before[r][c] = 0

\* The product of a and b in GF(256).
GFMul(a, b) ==
    IF a = 0 \/ b = 0 THEN 0 ELSE EXP_TABLE[(LOG_TABLE[a] + LOG_TABLE[b]) % 255]

\* The Reed-Solomon generator of n EC codewords, the product of (x - 2^i)
\* for i in 0..n-1, highest coefficient first.
RECURSIVE Generator(_)
Generator(n) ==
    IF n = 0 THEN <<1>>
    ELSE Let(Generator(n - 1), LAMBDA g :
             [k \in 1..(n + 1) |->
                 Xor(IF k <= n THEN g[k] ELSE 0,
                     IF k >= 2 THEN GFMul(g[k - 1], EXP_TABLE[n - 1]) ELSE 0)])

\* The remainder of data * x^Len(rem) by the generator g, by long division:
\* rem is the remainder of the codewords before data[i].
RECURSIVE Remainder(_, _, _, _)
Remainder(data, i, g, rem) ==
    IF i > Len(data) THEN rem
    ELSE Let([k \in 1..Len(rem) |->
                 Xor(IF k < Len(rem) THEN rem[k + 1] ELSE 0,
                     GFMul(g[k + 1], Xor(data[i], rem[1])))],
             LAMBDA next : Remainder(data, i + 1, g, next))

\* The place in the interleaved stream of codeword i (from 0) of block r,
\* the blocks having counts[r] codewords each.
Place(counts, r, i) ==
    Cardinality({p \in (1..Len(counts)) \X (0..(i - 1)) : p[2] < counts[p[1]]})
    + Cardinality({r2 \in 1..(r - 1) : i < counts[r2]}) + 1

\* The segments' bits fit the data capacity of the version at the level.
Fits ==
    TotalBits(arg.dataList, arg.version)
        <= BIT_LIMIT_TABLE(arg.errorCorrection, arg.version)

\* C20: for segments that fit, CreateData returns, with no error, as many
\* codewords as the blocks' TotalCounts add up to, in which each block has
\* its DataCount data codewords followed (after all data) by its
\* TotalCount - DataCount EC codewords, the remainder of the block's data
\* polynomial times x^(TotalCount - DataCount) by the generator.
C20_StreamIsDataPlusRemainders ==
    (call.op = "CreateData" /\ Fits)
    => LET blocks == RSBlocks(arg.version, arg.errorCorrection)
           dcCount == [r \in 1..Len(blocks) |-> blocks[r].DataCount]
           ecCount == [r \in 1..Len(blocks) |->
                         blocks[r].TotalCount - blocks[r].DataCount]
       IN  /\ res.status = "ok"
           /\ res.data # NilSlice
           /\ Len(res.data) = SumTotalCount(blocks, Len(blocks))
           /\ \A r \in 1..Len(blocks) :
                 LET dc == [i \in 1..dcCount[r] |->
                              res.data[Place(dcCount, r, i - 1)]]
                     ec == [i \in 1..ecCount[r] |->
                              res.data[SumDataCount(blocks, Len(blocks))
                                       + Place(ecCount, r, i - 1)]]
                 IN  ec = Remainder(dc, 1, Generator(ecCount[r]),
                                    [k \in 1..ecCount[r] |-> 0])

\* The first n bits of the bytes, highest bit of each byte first.
BitsOf(bytes, n) == [i \in 1..n |-> (bytes[((i - 1) \div 8) + 1] \div 2^(7 - ((i - 1) % 8))) % 2]

Zeros(n) == [i \in 1..n |-> 0]

\* n pad bytes 0xEC, 0x11, 0xEC, ... as bits.
PadBits(n) == BitsOf([i \in 1..n |-> IF i % 2 = 1 THEN 236 ELSE 17], 8 * n)

\* C21: for segments of L bits that fit the capacity C, the buffer handed
\* to the RS encoding holds exactly C bits: the segments' bits, then
\* min(4, C - L) zero bits, then zero bits up to the byte boundary, then the
\* bytes 0xEC, 0x11 in turn, 0xEC first, up to C.
C21_StreamIsTerminatedAndPadded ==
    call.op = "DataBuffer"
    => LET C == BIT_LIMIT_TABLE(arg.errorCorrection, arg.version)
           L == res.segments.length
           T == L + (IF C - L < 4 THEN C - L ELSE 4)
           A == T + ((8 - (T % 8)) % 8)
       IN  /\ T <= C /\ A <= C
           /\ res.padded.length = C
           /\ Len(res.padded.buffer) = C \div 8
           /\ BitsOf(res.padded.buffer, C)
                 = BitsOf(res.segments.buffer, L) \o Zeros(A - L)
                   \o PadBits((C - A) \div 8)

\* C21: a stream with a full terminator, alignment bits and several pad
\* bytes has been made.
C21_Witness ==
    /\ call.op = "DataBuffer"
    /\ res.segments.length % 8 = 1
    /\ res.padded.length >= res.segments.length + 7 + 24

\* C21: a stream whose terminator the capacity cuts short has been made.
C21_ShortTerminator ==
    /\ call.op = "DataBuffer"
    /\ res.padded.length - res.segments.length \in 1..3

\* The maximal runs of modules of one value in the rows ("row") and the
\* columns ("col") of a grid: <<direction, line, first, last>>.
Runs(modules) ==
    LET n == Size(modules)
        at(dir, line, k) == IF dir = "row" THEN modules[line][k] ELSE modules[k][line]
    IN  {run \in {"row", "col"} \X (0..(n - 1)) \X (0..(n - 1)) \X (0..(n - 1)) :
            /\ run[3] <= run[4]
            /\ \A k \in run[3]..run[4] : at(run[1], run[2], k) = at(run[1], run[2], run[3])
            /\ run[3] > 0 => at(run[1], run[2], run[3] - 1) # at(run[1], run[2], run[3])
            /\ run[4] < n - 1 => at(run[1], run[2], run[4] + 1) # at(run[1], run[2], run[3])}

\* C22: the rule-1 score of a grid with every cell assigned is the sum of
\* k - 2 over the maximal runs of k >= 5 modules of one value in its rows
\* and columns.
C22_RuleOneCountsRuns ==
    call.op = "LostPoint"
    => res.level1 =
         Cardinality({p \in Runs(arg.modules) \X (1..Size(arg.modules)) :
                         /\ p[1][4] - p[1][3] + 1 >= 5
                         /\ p[2] <= p[1][4] - p[1][3] + 1 - 2})

\* C23: the rule-2 score of a grid with every cell assigned is 3 times the
\* number of 2x2 blocks of four modules of one value.
C23_RuleTwoCountsBlocks ==
    call.op = "LostPoint"
    => res.level2 =
         3 * Cardinality({p \in (0..(Size(arg.modules) - 2)) \X (0..(Size(arg.modules) - 2)) :
                             /\ arg.modules[p[1]][p[2] + 1] = arg.modules[p[1]][p[2]]
                             /\ arg.modules[p[1] + 1][p[2]] = arg.modules[p[1]][p[2]]
                             /\ arg.modules[p[1] + 1][p[2] + 1] = arg.modules[p[1]][p[2]]})

\* C24: after any Put calls, Get at a position at or past Len() is an
\* error: it returns no bit.
C24_ReadPastLengthIsError ==
    (call.op = "Get" /\ arg.index >= res.length) => res.err # ""

C25_ErrorReturned ==
    /\ call.op = "AddData" /\ arg.fn = "AddData"
    /\ res.ret # "nil"
    /\ Len(arg.DataList) = 2 /\ arg.dataCache # NilSlice

\* ------------------------------------------------------------------------
\* MakeImpl's use of precomputedQRBlanks by NumBuilders goroutines, each
\* building a symbol of its own: arg[g] is the version of g's symbol, res[g]
\* its grid, pc[g] where g stands in MakeImpl and held[g] the access to the
\* map g is in the middle of ("read", "write" or "none"). The map is a plain
\* Go map and MakeImpl takes no lock: nothing orders one goroutine's access
\* against another's, so an access begins at any time and ends at any later
\* time. A read that overlaps a write finds either the map of before the
\* write or the map of after it, or the runtime stops the program ("fatal
\* error: concurrent map read and map write"), as it may for two overlapping
\* writes.

Builders == 1..NumBuilders

InitConc ==
    /\ arg \in [Builders -> 1..MaxVersion]
    /\ res = [g \in Builders |-> NoModules]
    /\ pc = [g \in Builders |-> "lookup"]
    /\ held = [g \in Builders |-> "none"]
    /\ precomputedQRBlanks = << >>
    /\ call = NoCall("MakeImpl")
    /\ q = NewQRCode(1, ERROR_CORRECT_H, 10, 0, 0).q

\* The map once the writes in progress (of goroutines other than g) are done.
Written(g) ==
    LET writers == {h \in Builders \ {g} : held[h] = "write"}
        keys == DOMAIN precomputedQRBlanks \cup {arg[h] : h \in writers}
    IN  [k \in keys |->
            IF \E h \in writers : arg[h] = k
            THEN Copy2DArray(res[CHOOSE h \in writers : arg[h] = k])
            ELSE precomputedQRBlanks[k]]

\* precomputedModules, ok := precomputedQRBlanks[q.Version()] begins.
LookupBegin(g) ==
    /\ Running
    /\ pc[g] = "lookup"
    /\ pc' = [pc EXCEPT ![g] = "lookup_end"]
    /\ held' = [held EXCEPT ![g] = "read"]
    /\ UNCHANGED <<q, precomputedQRBlanks, call, arg, res>>

\* The lookup ends: on a hit the grid is the copy of the entry, on a miss the
\* grid MakeImpl sets up.
LookupEnd(g) ==
    /\ Running
    /\ pc[g] = "lookup_end"
    /\ \E blanks \in {precomputedQRBlanks, Written(g)} :
          IF arg[g] \in DOMAIN blanks
          THEN /\ res' = [res EXCEPT ![g] = Copy2DArray(blanks[arg[g]])]
               /\ pc' = [pc EXCEPT ![g] = "done"]
          ELSE /\ res' = [res EXCEPT ![g] = BlankModules(arg[g], arg[g] * 4 + 17)]
               /\ pc' = [pc EXCEPT ![g] = "store"]
    /\ held' = [held EXCEPT ![g] = "none"]
    /\ UNCHANGED <<q, precomputedQRBlanks, call, arg>>

\* precomputedQRBlanks[q.Version()] = Copy2DArray(q.modules) begins.
StoreBegin(g) ==
    /\ Running
    /\ pc[g] = "store"
    /\ pc' = [pc EXCEPT ![g] = "store_end"]
    /\ held' = [held EXCEPT ![g] = "write"]
    /\ UNCHANGED <<q, precomputedQRBlanks, call, arg, res>>

\* The assignment ends.
StoreEnd(g) ==
    /\ Running
    /\ pc[g] = "store_end"
    /\ precomputedQRBlanks' =
          [k \in DOMAIN precomputedQRBlanks \cup {arg[g]} |->
              IF k = arg[g] THEN Copy2DArray(res[g]) ELSE precomputedQRBlanks[k]]
    /\ pc' = [pc EXCEPT ![g] = "done"]
    /\ held' = [held EXCEPT ![g] = "none"]
    /\ UNCHANGED <<q, call, arg, res>>

\* Two goroutines are in the map at once, one of them writing.
Racing ==
    \E g, h \in Builders : g # h /\ held[g] = "write" /\ held[h] # "none"

\* The runtime detects the concurrent access and stops the program.
Fatal ==
    /\ Running
    /\ Racing
    /\ call' = [call EXCEPT !.err = "concurrent map access"]
    /\ UNCHANGED <<q, precomputedQRBlanks, pc, held, arg, res>>

NextConc ==
    \/ \E g \in Builders : LookupBegin(g)
    \/ \E g \in Builders : LookupEnd(g)
    \/ \E g \in Builders : StoreBegin(g)
    \/ \E g \in Builders : StoreEnd(g)
    \/ Fatal

SpecConc == InitConc /\ [][NextConc]_vars

\* C7: while one build writes the blank cache, no other build reads or
\* writes it.
C7_CacheAccessIsExclusive ==
    \A g, h \in Builders : (g # h /\ held[g] = "write") => held[h] = "none"

====
